---- MODULE Spec2Model ----
(***************************************************************************)
(* Cart-to-order pipeline of the supermarket customer backend.             *)
(*                                                                         *)
(* Three stores: the customer store (carts, addresses), the catalog store  *)
(* (products, read-only for this backend) and the shared order store.      *)
(* Every handler is an async function; each action below is one store      *)
(* operation of a handler together with the synchronous code that follows  *)
(* it up to the next store operation.  Several requests are in flight at   *)
(* once (one slot each) and their store operations interleave.             *)
(*                                                                         *)
(* Money is counted in units of 1/10000 rupee so that price * quantity and *)
(* 18% of a subtotal are whole numbers.                                    *)
(***************************************************************************)
EXTENDS Integers, Sequences, FiniteSets, TLC

VARIABLES
  carts,       \* customer store: customer -> cart document or NoCart
  addresses,   \* customer store: address id -> address document
  catalog,     \* catalog store: product id -> product document
  orders,      \* shared order store: the order documents, oldest first
  adminReady,  \* adminDbConnection.readyState === 1
  req,         \* slot -> the request in it: Idle, in flight, or Closed
  out,         \* the response sent last
  sent,        \* the body of the response sent last
  placed,      \* history: placed[i] is the request body that created orders[i]
  edits        \* catalog edits the operator system may still make

vars == <<carts, addresses, catalog, orders, adminReady, req, out, sent,
          placed, edits>>

(* ------------------------------ bounds --------------------------------- *)

MaxStock == 2
MaxEdits == 1

Slots == {1, 2}
Customers == {"c1", "c2"}
Products == {"p1", "p2"}
AddressIds == {"a1", "a2"}
Suffixes == {"A", "B"}
Statuses == {"ACTIVE", "INACTIVE", "UNAVAILABLE"}
Timestamps == {1}
QtyInputs == (0 - 1)..MaxStock
PaymentInputs == {"", "cod", "razorpay"}
ClientTotals == {0, 1}

(* ------------------------ program constants ---------------------------- *)

Unit == 100 * 100
TaxRatePercent == 18
DELIVERY_FEE == 50
FreeDeliveryThreshold == 500

(* subtotal * TAX_RATE with TAX_RATE = 0.18 *)
TAX_RATE(amount) == (amount * TaxRatePercent) \div 100

(* Catalog prices: 499.99 and 0.01 rupee, so that carts reach the          *)
(* subtotals 499.99, 500.00 and more.                                      *)
Price == [p \in Products |-> IF p = "p1" THEN 4999900 ELSE 100]

(* ------------------------------ stores --------------------------------- *)

NoCart == [exists |-> FALSE]
NoProduct == [exists |-> FALSE]
NoAddress == [exists |-> FALSE]
Idle == [op |-> "idle"]
Closed == [op |-> "closed"]

Response(op, status, error) == [op |-> op, status |-> status, error |-> error]

(* a response that carries no cart and no order *)
NoBody == [kind |-> "none"]

(* { success: true, cart } *)
CartBody(items) == [kind |-> "cart", items |-> items]

CartItem(p, q) == [product |-> p, quantity |-> q]

CartDoc(items) == [exists |-> TRUE, items |-> items]

ProductDoc(p, status, stock) ==
  [exists |-> TRUE, id |-> p, status |-> status, stock |-> stock,
   price |-> Price[p]]

AddressDoc(user) ==
  [exists |-> TRUE, user |-> user, addressLine1 |-> 1, isDefault |-> FALSE]

(* a schema without the minimum on quantity *)
ValidQuantityAny(q) == q \in Int

(* CartItemSchema: quantity is required with min 1; validated by           *)
(* Cart.create and by cart.save for every modified line.                   *)
ValidQuantity(q) == q >= 1

ValidItems(items) == \A i \in 1..Len(items) : ValidQuantity(items[i].quantity)

(* virtual stockQuantity of the Product schema *)
StockQuantity(product) == product.stock

(* product.stock || product.stockQuantity || 0 *)
AvailableStock(product) ==
  IF product.stock # 0 THEN product.stock
  ELSE IF StockQuantity(product) # 0 THEN StockQuantity(product)
  ELSE 0

(* Product.findById(productId): no status filter *)
FindById(p) == catalog[p]

(* items.findIndex(item => item.product === productId); 0 stands for -1 *)
FindIndex(items, p) ==
  IF \E i \in 1..Len(items) : items[i].product = p
  THEN CHOOSE i \in 1..Len(items) :
         /\ items[i].product = p
         /\ \A j \in 1..(i - 1) : items[j].product # p
  ELSE 0

(* A request that has loaded customer c's cart document and has not yet    *)
(* finished holds an in-memory copy whose version key (__v) is the one it  *)
(* read.  cart.save sends a $push without a version condition but          *)
(* increments __v; a positional $set (items.i.quantity) is conditioned on  *)
(* __v and does not increment it; a $set of the whole array is conditioned *)
(* on __v and increments it.  Since __v only grows, "the copy's __v is no  *)
(* longer the stored __v" is kept as the flag stale of the slot.           *)
HoldsCart(s, c) ==
  /\ req[s].op \notin {"idle", "closed"}
  /\ req[s].pc \in {"save", "merge", "products", "persist", "clear"}
  /\ req[s].cust = c

(* Each slot carries one request; a new request takes the lowest slot     *)
(* not yet used.                                                           *)
Arrive(r) ==
  /\ req[r] = Idle
  /\ \A s \in Slots : s < r => req[s] # Idle
  /\ UNCHANGED edits

(* res.status(status).json(...) of a request that ends in its first step *)
Reject(r, op, status, error) ==
  /\ out' = Response(op, status, error)
  /\ sent' = NoBody
  /\ req' = [req EXCEPT ![r] = Closed]

(* res.status(status).json(body) of a request that ends in its first step *)
Respond(r, op, status, body) ==
  /\ out' = Response(op, status, "")
  /\ sent' = body
  /\ req' = [req EXCEPT ![r] = Closed]

(* the first step of request r ends with record rec in the slot *)
Proceed(r, rec) ==
  /\ req' = [req EXCEPT ![r] = rec]
  /\ UNCHANGED <<out, sent>>

(* res.status(status).json(...) of the request in slot r; bump tells       *)
(* whether its last write incremented the version key of its cart          *)
ReplyWith(r, status, error, bump, body) ==
  /\ out' = Response(req[r].op, status, error)
  /\ sent' = body
  /\ req' = [s \in Slots |->
               IF s = r THEN Closed
               ELSE IF bump /\ HoldsCart(s, req[r].cust)
               THEN [req[s] EXCEPT !.stale = TRUE]
               ELSE req[s]]

Reply(r, status, error, bump) == ReplyWith(r, status, error, bump, NoBody)

(* populateCartProducts: Product.find({ _id: { $in }, status: "ACTIVE" })   *)
(* and the lines of the document in memory whose product it returned       *)
RECURSIVE PopulateCartProducts(_)
PopulateCartProducts(items) ==
  IF items = <<>> THEN <<>>
  ELSE LET item == Head(items)
           product == catalog[item.product]
       IN  (IF product.exists /\ product.status = "ACTIVE"
            THEN <<item>> ELSE <<>>)
           \o PopulateCartProducts(Tail(items))

(* the body of the response to a request on the cart: the handlers that    *)
(* answer with the cart populate the document they hold in memory          *)
Populated(op, items) ==
  IF op \in {"getCart", "addToCart", "updateCartItem", "removeFromCart",
             "syncGuestCart"}
  THEN CartBody(PopulateCartProducts(items))
  ELSE NoBody

(* cart.items.filter(item => item.product !== productId) *)
RECURSIVE Filter(_, _)
Filter(items, p) ==
  IF items = <<>> THEN <<>>
  ELSE IF Head(items).product = p THEN Filter(Tail(items), p)
  ELSE <<Head(items)>> \o Filter(Tail(items), p)

(* items[i].quantity = q marks the line modified only when the value      *)
(* changes                                                                 *)
Dirty(items, i, q) == IF items[i].quantity = q THEN {} ELSE {i}

(* The request record once the cart document is loaded and changed in      *)
(* memory: items is the in-memory array, loaded the length of the array    *)
(* as read, dirty the lines whose quantity was assigned, and kind the      *)
(* update that cart.save() will send:                                      *)
(*   "none"      nothing is modified, save sends nothing                   *)
(*   "set"       items.i.quantity for the dirty lines                      *)
(*   "push"      the lines appended to the loaded array                    *)
(*   "overwrite" the whole array                                           *)
Loaded(rec, kind, items, dirty, loaded) ==
  [f \in (DOMAIN rec) \ {"pc"} |-> rec[f]] @@
  [pc |-> "save", stale |-> FALSE, kind |-> kind, items |-> items,
   dirty |-> dirty, loaded |-> loaded]

(* cart.save(): validation of the document against the schema, then the    *)
(* update; the response after a successful save has the given status.      *)
(* populateCartProducts, which follows the save, reads the catalog and     *)
(* the document in memory only and writes nothing, so it is taken in the   *)
(* same step.                                                              *)
CartSave(r, kind, items, dirty, loaded, status) ==
  LET c == req[r].cust
      stored == carts[c].items
  IN  IF kind = "none"
      THEN /\ ReplyWith(r, status, "", FALSE, Populated(req[r].op, items))
           /\ UNCHANGED carts
      ELSE IF ~ValidItems(items)
      THEN /\ Reply(r, 500, "Cart validation failed", FALSE)
           /\ UNCHANGED carts
      ELSE IF kind # "push" /\ req[r].stale
      THEN /\ Reply(r, 500, "No matching document found", FALSE)
           /\ UNCHANGED carts
      ELSE /\ carts' = [carts EXCEPT ![c].items =
                CASE kind = "set" ->
                       [i \in DOMAIN stored |->
                          IF i \in dirty
                          THEN [stored[i] EXCEPT
                                  !.quantity = items[i].quantity]
                          ELSE stored[i]]
                  [] kind = "push" ->
                       stored \o SubSeq(items, loaded + 1, Len(items))
                  [] kind = "overwrite" -> items]
           /\ ReplyWith(r, status, "", kind # "set",
                        Populated(req[r].op, items))

(* ------------------------------ Init ----------------------------------- *)

(* The stores when the requests modelled here arrive: carts filled by      *)
(* earlier requests, a catalog as its owner left it.                       *)
InitWith(seedCarts, seedCatalogs) ==
  /\ carts \in seedCarts
  /\ addresses = [a \in AddressIds |->
                    AddressDoc(IF a = "a1" THEN "c1" ELSE "c2")]
  /\ catalog \in seedCatalogs
  /\ orders = <<>>
  /\ adminReady = TRUE
  /\ req = [r \in Slots |-> Idle]
  /\ out = Response("none", 0, "")
  /\ sent = NoBody
  /\ placed = <<>>
  /\ edits = MaxEdits

(* ----------------------------- getCart -------------------------------- *)

(* Cart.findOne({ user }) *)
GetCart(r, c) ==
  /\ Arrive(r)
  /\ LET cart == carts[c]
     IN  IF ~cart.exists
         THEN Proceed(r, [op |-> "getCart", pc |-> "create", cust |-> c])
         ELSE Proceed(r, [op |-> "getCart", pc |-> "populate", cust |-> c,
                          items |-> cart.items])
  /\ UNCHANGED <<carts, addresses, catalog, orders, adminReady, placed>>

(* a Cart.create on a collection without the unique index on user *)
GetCartCreateUnindexed(r) ==
  /\ req[r].op = "getCart"
  /\ req[r].pc = "create"
  /\ carts' = [carts EXCEPT ![req[r].cust] = CartDoc(<<>>)]
  /\ ReplyWith(r, 200, "", FALSE, Populated("getCart", <<>>))
  /\ UNCHANGED <<addresses, catalog, orders, adminReady, placed, edits>>

(* Cart.create({ user, items: [] }), which the unique index on user        *)
(* rejects when the customer's cart exists by now; populateCartProducts    *)
(* returns a cart without lines as it is                                   *)
GetCartCreate(r) ==
  /\ req[r].op = "getCart"
  /\ req[r].pc = "create"
  /\ LET c == req[r].cust
     IN  IF carts[c].exists
         THEN /\ Reply(r, 500, "E11000 duplicate key", FALSE)
              /\ UNCHANGED carts
         ELSE /\ carts' = [carts EXCEPT ![c] = CartDoc(<<>>)]
              /\ ReplyWith(r, 200, "", FALSE, Populated("getCart", <<>>))
  /\ UNCHANGED <<addresses, catalog, orders, adminReady, placed, edits>>

(* a getCart that saves the document after populateCartProducts *)
GetCartPopulateSaving(r) ==
  /\ req[r].op = "getCart"
  /\ req[r].pc = "populate"
  /\ carts' = [carts EXCEPT
                 ![req[r].cust].items = PopulateCartProducts(req[r].items)]
  /\ ReplyWith(r, 200, "", FALSE, Populated("getCart", req[r].items))
  /\ UNCHANGED <<addresses, catalog, orders, adminReady, placed, edits>>

(* populateCartProducts(cart) and res.json({ success: true, cart }) *)
GetCartPopulate(r) ==
  /\ req[r].op = "getCart"
  /\ req[r].pc = "populate"
  /\ ReplyWith(r, 200, "", FALSE, Populated("getCart", req[r].items))
  /\ UNCHANGED <<carts, addresses, catalog, orders, adminReady, placed, edits>>

(* --------------------------- addToCart --------------------------------- *)

(* const { productId, quantity = 1 } = req.body; Product.findById;         *)
(* stock check against the requested quantity                              *)
AddToCart(r, c, p, q) ==
  /\ Arrive(r)
  /\ LET product == FindById(p)
     IN  IF ~product.exists
         THEN Reject(r, "addToCart", 404, "Product not found")
         ELSE IF AvailableStock(product) < q
         THEN Reject(r, "addToCart", 400, "Insufficient stock")
         ELSE Proceed(r, [op |-> "addToCart", pc |-> "findCart", cust |-> c,
                          productId |-> p, quantity |-> q,
                          availableStock |-> AvailableStock(product)])
  /\ UNCHANGED <<carts, addresses, catalog, orders, adminReady, placed>>

(* the step without the comparison of the merged quantity with the stock *)
AddToCartFindCartUnchecked(r) ==
  /\ req[r].op = "addToCart"
  /\ req[r].pc = "findCart"
  /\ LET cart == carts[req[r].cust]
         existingItemIndex == FindIndex(cart.items, req[r].productId)
         newQuantity ==
           cart.items[existingItemIndex].quantity + req[r].quantity
     IN  IF ~cart.exists
         THEN Proceed(r, [req[r] EXCEPT !.pc = "create"])
         ELSE IF existingItemIndex > 0
         THEN Proceed(r, Loaded(req[r],
                     IF Dirty(cart.items, existingItemIndex, newQuantity) = {}
                     THEN "none" ELSE "set",
                     [cart.items EXCEPT
                        ![existingItemIndex].quantity = newQuantity],
                     Dirty(cart.items, existingItemIndex, newQuantity),
                     Len(cart.items)))
         ELSE Proceed(r, Loaded(req[r], "push",
                Append(cart.items,
                       CartItem(req[r].productId, req[r].quantity)),
                {}, Len(cart.items)))
  /\ UNCHANGED <<carts, addresses, catalog, orders, adminReady, placed, edits>>

(* Cart.findOne({ user }) and the in-memory change of the loaded document  *)
AddToCartFindCart(r) ==
  /\ req[r].op = "addToCart"
  /\ req[r].pc = "findCart"
  /\ LET cart == carts[req[r].cust]
         existingItemIndex == FindIndex(cart.items, req[r].productId)
         newQuantity ==
           cart.items[existingItemIndex].quantity + req[r].quantity
     IN  IF ~cart.exists
         THEN Proceed(r, [req[r] EXCEPT !.pc = "create"])
         ELSE IF existingItemIndex > 0
         THEN IF newQuantity > req[r].availableStock
              THEN Reply(r, 400, "Insufficient stock", FALSE)
              ELSE Proceed(r, Loaded(req[r],
                     IF Dirty(cart.items, existingItemIndex, newQuantity) = {}
                     THEN "none" ELSE "set",
                     [cart.items EXCEPT
                        ![existingItemIndex].quantity = newQuantity],
                     Dirty(cart.items, existingItemIndex, newQuantity),
                     Len(cart.items)))
         ELSE Proceed(r, Loaded(req[r], "push",
                Append(cart.items,
                       CartItem(req[r].productId, req[r].quantity)),
                {}, Len(cart.items)))
  /\ UNCHANGED <<carts, addresses, catalog, orders, adminReady, placed, edits>>

(* Cart.create({ user, items }): schema validation, then the insert, which *)
(* the unique index on user rejects when the customer's cart exists        *)
AddToCartCreate(r) ==
  /\ req[r].op = "addToCart"
  /\ req[r].pc = "create"
  /\ LET c == req[r].cust
         items == <<CartItem(req[r].productId, req[r].quantity)>>
     IN  IF ~ValidItems(items)
         THEN /\ Reply(r, 500, "Cart validation failed", FALSE)
              /\ UNCHANGED carts
         ELSE IF carts[c].exists
         THEN /\ Reply(r, 500, "E11000 duplicate key", FALSE)
              /\ UNCHANGED carts
         ELSE /\ carts' = [carts EXCEPT ![c] = CartDoc(items)]
              /\ ReplyWith(r, 200, "", FALSE,
                           Populated("addToCart", items))
  /\ UNCHANGED <<addresses, catalog, orders, adminReady, placed, edits>>

AddToCartSave(r) ==
  /\ req[r].op = "addToCart"
  /\ req[r].pc = "save"
  /\ CartSave(r, req[r].kind, req[r].items, req[r].dirty, req[r].loaded, 200)
  /\ UNCHANGED <<addresses, catalog, orders, adminReady, placed, edits>>

(* -------------------------- updateCartItem ----------------------------- *)

(* the step without the lower bound on the quantity *)
UpdateCartItemAnyQuantity(r, c, p, q) ==
  /\ Arrive(r)
  /\ LET product == FindById(p)
     IN  IF ~product.exists
         THEN Reject(r, "updateCartItem", 404, "Product not found")
         ELSE IF AvailableStock(product) < q
         THEN Reject(r, "updateCartItem", 400, "Insufficient stock")
         ELSE Proceed(r, [op |-> "updateCartItem", pc |-> "findCart",
                          cust |-> c, productId |-> p, quantity |-> q])
  /\ UNCHANGED <<carts, addresses, catalog, orders, adminReady, placed>>

(* quantity < 1 is refused first; then Product.findById and the stock      *)
(* check                                                                   *)
UpdateCartItem(r, c, p, q) ==
  /\ Arrive(r)
  /\ LET product == FindById(p)
     IN  IF q < 1
         THEN Reject(r, "updateCartItem", 400, "Quantity must be at least 1")
         ELSE IF ~product.exists
         THEN Reject(r, "updateCartItem", 404, "Product not found")
         ELSE IF AvailableStock(product) < q
         THEN Reject(r, "updateCartItem", 400, "Insufficient stock")
         ELSE Proceed(r, [op |-> "updateCartItem", pc |-> "findCart",
                          cust |-> c, productId |-> p, quantity |-> q])
  /\ UNCHANGED <<carts, addresses, catalog, orders, adminReady, placed>>

UpdateCartItemFindCart(r) ==
  /\ req[r].op = "updateCartItem"
  /\ req[r].pc = "findCart"
  /\ LET cart == carts[req[r].cust]
         itemIndex == FindIndex(cart.items, req[r].productId)
     IN  IF ~cart.exists
         THEN Reply(r, 404, "Cart not found", FALSE)
         ELSE IF itemIndex = 0
         THEN Reply(r, 404, "Item not found in cart", FALSE)
         ELSE Proceed(r, Loaded(req[r],
                IF Dirty(cart.items, itemIndex, req[r].quantity) = {}
                THEN "none" ELSE "set",
                [cart.items EXCEPT ![itemIndex].quantity = req[r].quantity],
                Dirty(cart.items, itemIndex, req[r].quantity),
                Len(cart.items)))
  /\ UNCHANGED <<carts, addresses, catalog, orders, adminReady, placed, edits>>

UpdateCartItemSave(r) ==
  /\ req[r].op = "updateCartItem"
  /\ req[r].pc = "save"
  /\ CartSave(r, req[r].kind, req[r].items, req[r].dirty, req[r].loaded, 200)
  /\ UNCHANGED <<addresses, catalog, orders, adminReady, placed, edits>>

(* -------------------------- removeFromCart ----------------------------- *)

(* Cart.findOne; cart.items = cart.items.filter(...) *)
RemoveFromCart(r, c, p) ==
  /\ Arrive(r)
  /\ LET cart == carts[c]
         items == Filter(cart.items, p)
     IN  IF ~cart.exists
         THEN Reject(r, "removeFromCart", 404, "Cart not found")
         ELSE Proceed(r, Loaded([op |-> "removeFromCart", cust |-> c],
                IF items = cart.items THEN "none" ELSE "overwrite",
                items, {}, Len(cart.items)))
  /\ UNCHANGED <<carts, addresses, catalog, orders, adminReady, placed>>

RemoveFromCartSave(r) ==
  /\ req[r].op = "removeFromCart"
  /\ req[r].pc = "save"
  /\ CartSave(r, req[r].kind, req[r].items, req[r].dirty, req[r].loaded, 200)
  /\ UNCHANGED <<addresses, catalog, orders, adminReady, placed, edits>>

(* ----------------------------- clearCart ------------------------------- *)

(* Cart.findOne; cart.items = [] *)
ClearCart(r, c) ==
  /\ Arrive(r)
  /\ LET cart == carts[c]
     IN  IF ~cart.exists
         THEN Reject(r, "clearCart", 200, "Cart already empty")
         ELSE Proceed(r, Loaded([op |-> "clearCart", cust |-> c],
                IF cart.items = <<>> THEN "none" ELSE "overwrite",
                <<>>, {}, Len(cart.items)))
  /\ UNCHANGED <<carts, addresses, catalog, orders, adminReady, placed>>

ClearCartSave(r) ==
  /\ req[r].op = "clearCart"
  /\ req[r].pc = "save"
  /\ CartSave(r, req[r].kind, req[r].items, req[r].dirty, req[r].loaded, 200)
  /\ UNCHANGED <<addresses, catalog, orders, adminReady, placed, edits>>

(* --------------------------- syncGuestCart ----------------------------- *)

Min(a, b) == IF a < b THEN a ELSE b

(* Array.isArray(items); Cart.findOne.  body is req.body.items and guest   *)
(* the lines of it that the loop has not visited yet.                      *)
SyncGuestCart(r, c, isArray, guest) ==
  /\ Arrive(r)
  /\ LET cart == carts[c]
         rec == [op |-> "syncGuestCart", cust |-> c, body |-> guest,
                 guest |-> guest]
     IN  IF ~isArray
         THEN Reject(r, "syncGuestCart", 400, "Invalid items format")
         ELSE IF ~cart.exists
         THEN Proceed(r, rec @@ [pc |-> "create"])
         ELSE Proceed(r, [Loaded(rec, "none", cart.items, {},
                                 Len(cart.items)) EXCEPT !.pc = "merge"])
  /\ UNCHANGED <<carts, addresses, catalog, orders, adminReady, placed>>

(* Cart.create({ user, items: [] }) *)
SyncGuestCartCreate(r) ==
  /\ req[r].op = "syncGuestCart"
  /\ req[r].pc = "create"
  /\ LET c == req[r].cust
     IN  IF carts[c].exists
         THEN /\ Reply(r, 500, "E11000 duplicate key", FALSE)
              /\ UNCHANGED carts
         ELSE /\ carts' = [carts EXCEPT ![c] = CartDoc(<<>>)]
              /\ Proceed(r, [Loaded(req[r], "none", <<>>, {}, 0)
                               EXCEPT !.pc = "merge"])
  /\ UNCHANGED <<addresses, catalog, orders, adminReady, placed, edits>>

(* one turn of a loop that merges a line without looking at the stock *)
SyncGuestCartMergeUnchecked(r) ==
  /\ req[r].op = "syncGuestCart"
  /\ req[r].pc = "merge"
  /\ req[r].guest # <<>>
  /\ LET item == Head(req[r].guest)
         rest == [req[r] EXCEPT !.guest = Tail(@)]
         product == FindById(item.productId)
         items == req[r].items
         existingItemIndex == FindIndex(items, item.productId)
         newQuantity == items[existingItemIndex].quantity + item.quantity
     IN  IF ~product.exists
         THEN Proceed(r, rest)
         ELSE IF existingItemIndex > 0
         THEN Proceed(r, [rest EXCEPT
                !.items[existingItemIndex].quantity = newQuantity,
                !.dirty = @ \cup Dirty(items, existingItemIndex,
                                       newQuantity)])
         ELSE Proceed(r, [rest EXCEPT
                !.items = Append(@, CartItem(item.productId,
                                             item.quantity))])
  /\ UNCHANGED <<carts, addresses, catalog, orders, adminReady, placed, edits>>

(* one turn of the loop: Product.findById(item.productId) and the change   *)
(* of the in-memory cart                                                   *)
SyncGuestCartMerge(r) ==
  /\ req[r].op = "syncGuestCart"
  /\ req[r].pc = "merge"
  /\ req[r].guest # <<>>
  /\ LET item == Head(req[r].guest)
         rest == [req[r] EXCEPT !.guest = Tail(@)]
         product == FindById(item.productId)
         items == req[r].items
         existingItemIndex == FindIndex(items, item.productId)
         newQuantity ==
           Min(items[existingItemIndex].quantity + item.quantity,
               AvailableStock(product))
     IN  IF ~product.exists
         THEN Proceed(r, rest)
         ELSE IF AvailableStock(product) < item.quantity
         THEN Proceed(r, rest)
         ELSE IF existingItemIndex > 0
         THEN Proceed(r, [rest EXCEPT
                !.items[existingItemIndex].quantity = newQuantity,
                !.dirty = @ \cup Dirty(items, existingItemIndex,
                                       newQuantity)])
         ELSE Proceed(r, [rest EXCEPT
                !.items = Append(@, CartItem(item.productId,
                                             item.quantity))])
  /\ UNCHANGED <<carts, addresses, catalog, orders, adminReady, placed, edits>>

(* cart.save() after the loop: assigned lines and appended lines together  *)
(* are sent as one $set of the whole array                                 *)
SyncGuestCartSave(r) ==
  /\ req[r].op = "syncGuestCart"
  /\ req[r].pc = "merge"
  /\ req[r].guest = <<>>
  /\ LET pushed == Len(req[r].items) > req[r].loaded
         assigned == req[r].dirty # {}
         kind == IF pushed /\ assigned THEN "overwrite"
                 ELSE IF pushed THEN "push"
                 ELSE IF assigned THEN "set"
                 ELSE "none"
     IN  CartSave(r, kind, req[r].items, req[r].dirty, req[r].loaded, 200)
  /\ UNCHANGED <<addresses, catalog, orders, adminReady, placed, edits>>

(* --------------------------- createOrder ------------------------------- *)

(* paymentMethodMap[paymentMethod] || 'OTHER' *)
PaymentMethodMap(paymentMethod) ==
  CASE paymentMethod = "cod" -> "CASH"
    [] paymentMethod = "razorpay" -> "ONLINE"
    [] OTHER -> "OTHER"

(* a payment status that is PENDING whatever the payment method *)
PaymentStatusPending(paymentMethod) == "PENDING"

(* paymentStatusMap[paymentMethod === "cod" ? "pending" : "paid"] *)
PaymentStatusMap(paymentMethod) ==
  IF paymentMethod = "cod" THEN "PENDING" ELSE "PAID"

(* a Product.find without the status in its filter *)
ProductMapAnyStatus(items) ==
  [p \in Products |->
     IF /\ \E i \in 1..Len(items) : items[i].product = p
        /\ catalog[p].exists
     THEN catalog[p] ELSE NoProduct]

(* Product.find({ _id: { $in: productIds }, status: "ACTIVE" }) as the     *)
(* map productId -> product                                                *)
ProductMap(items) ==
  [p \in Products |->
     IF /\ \E i \in 1..Len(items) : items[i].product = p
        /\ catalog[p].exists
        /\ catalog[p].status = "ACTIVE"
     THEN catalog[p] ELSE NoProduct]

(* the loop without the comparison of the stock with the line's quantity  *)
RECURSIVE OrderItemsUnchecked(_, _, _)
OrderItemsUnchecked(items, productMap, acc) ==
  IF items = <<>> THEN acc
  ELSE LET item == Head(items)
           product == productMap[item.product]
       IN  IF ~product.exists
           THEN [acc EXCEPT !.error = "Product not found for item in cart"]
           ELSE OrderItemsUnchecked(Tail(items), productMap,
                  [acc EXCEPT
                     !.subtotal = @ + product.price * item.quantity,
                     !.items = Append(@,
                        [product |-> item.product,
                         quantity |-> item.quantity,
                         price |-> product.price,
                         subtotal |-> product.price * item.quantity])])

(* the loop over the cart lines: it stops at the first line whose product  *)
(* is not in the map or whose stock is below the line's quantity           *)
RECURSIVE OrderItems(_, _, _)
OrderItems(items, productMap, acc) ==
  IF items = <<>> THEN acc
  ELSE LET item == Head(items)
           product == productMap[item.product]
       IN  IF ~product.exists
           THEN [acc EXCEPT !.error = "Product not found for item in cart"]
           ELSE IF AvailableStock(product) < item.quantity
           THEN [acc EXCEPT !.error = "Insufficient stock for product"]
           ELSE OrderItems(Tail(items), productMap,
                  [acc EXCEPT
                     !.subtotal = @ + product.price * item.quantity,
                     !.items = Append(@,
                        [product |-> item.product,
                         quantity |-> item.quantity,
                         price |-> product.price,
                         subtotal |-> product.price * item.quantity])])

(* the fee with a strict comparison at the threshold *)
DeliveryFeeStrict(subtotal) ==
  IF subtotal > FreeDeliveryThreshold * Unit THEN 0 ELSE DELIVERY_FEE * Unit

(* subtotal >= 500 ? 0 : DELIVERY_FEE *)
DeliveryFee(subtotal) ==
  IF subtotal >= FreeDeliveryThreshold * Unit THEN 0 ELSE DELIVERY_FEE * Unit

(* the document with a total that leaves the delivery fee out *)
OrderDocWithoutFee(orderNumber, customer, lines, body, address) ==
  LET subtotal == lines.subtotal
      tax == TAX_RATE(subtotal)
      deliveryFee == DeliveryFee(subtotal)
      total == subtotal + tax
  IN  [orderNumber |-> orderNumber, customer |-> customer,
       items |-> lines.items, subtotal |-> subtotal, tax |-> tax,
       shipping |-> deliveryFee, total |-> total, status |-> "PLACED",
       paymentMethod |-> PaymentMethodMap(body.paymentMethod),
       paymentStatus |-> PaymentStatusMap(body.paymentMethod),
       shippingAddress |-> [street |-> address.addressLine1]]

(* the document with the amounts of the request body when it carries some *)
OrderDocFromBody(orderNumber, customer, lines, body, address) ==
  LET subtotal == IF body.total # 0 THEN body.total * Unit ELSE lines.subtotal
      tax == TAX_RATE(subtotal)
      deliveryFee == DeliveryFee(subtotal)
      total == subtotal + tax + deliveryFee
  IN  [orderNumber |-> orderNumber, customer |-> customer,
       items |-> lines.items, subtotal |-> subtotal, tax |-> tax,
       shipping |-> deliveryFee, total |-> total, status |-> "PLACED",
       paymentMethod |-> PaymentMethodMap(body.paymentMethod),
       paymentStatus |-> PaymentStatusMap(body.paymentMethod),
       shippingAddress |-> [street |-> address.addressLine1]]

(* the document handed to AdminOrder.create *)
OrderDoc(orderNumber, customer, lines, body, address) ==
  LET subtotal == lines.subtotal
      tax == TAX_RATE(subtotal)
      deliveryFee == DeliveryFee(subtotal)
      total == subtotal + tax + deliveryFee
  IN  [orderNumber |-> orderNumber, customer |-> customer,
       items |-> lines.items, subtotal |-> subtotal, tax |-> tax,
       shipping |-> deliveryFee, total |-> total, status |-> "PLACED",
       paymentMethod |-> PaymentMethodMap(body.paymentMethod),
       paymentStatus |-> PaymentStatusMap(body.paymentMethod),
       shippingAddress |-> [street |-> address.addressLine1]]

(* Address.findOne({ _id: addressId, user }) *)
FindAddress(addressId, user) ==
  IF /\ addressId \in DOMAIN addresses
     /\ addresses[addressId].exists
     /\ addresses[addressId].user = user
  THEN addresses[addressId] ELSE NoAddress

(* Validation of the body, Cart.findOne and Address.findOne.  Both reads   *)
(* are of the customer store and no handler writes carts and addresses     *)
(* together, so the two reads are taken in one step.                       *)
CreateOrder(r, c, body) ==
  /\ Arrive(r)
  /\ LET cart == carts[c]
         address == FindAddress(body.addressId, c)
     IN  IF body.addressId = "" \/ body.paymentMethod = ""
         THEN Reject(r, "createOrder", 400,
                     "Address and payment method required")
         ELSE IF body.paymentMethod = "razorpay" /\ ~body.razorpayIds
         THEN Reject(r, "createOrder", 400, "Razorpay payment details required")
         ELSE IF ~cart.exists \/ Len(cart.items) = 0
         THEN Reject(r, "createOrder", 400, "Cart is empty")
         ELSE IF ~address.exists
         THEN Reject(r, "createOrder", 404, "Address not found")
         ELSE Proceed(r, [op |-> "createOrder", pc |-> "products",
                          cust |-> c, body |-> body, stale |-> FALSE,
                          items |-> cart.items, address |-> address])
  /\ UNCHANGED <<carts, addresses, catalog, orders, adminReady, placed>>

(* the quantity of product p in the orders already persisted *)
RECURSIVE Ordered(_, _)
Ordered(lines, p) ==
  IF lines = <<>> THEN 0
  ELSE (IF Head(lines).product = p THEN Head(lines).quantity ELSE 0)
       + Ordered(Tail(lines), p)

RECURSIVE OrderedIn(_, _)
OrderedIn(list, p) ==
  IF list = <<>> THEN 0
  ELSE Ordered(Head(list).items, p) + OrderedIn(Tail(list), p)

(* the step with a stock check that counts what the persisted orders took *)
CreateOrderProductsReserving(r, timestamp, randomSuffix) ==
  /\ req[r].op = "createOrder"
  /\ req[r].pc = "products"
  /\ LET lines == OrderItems(req[r].items, ProductMap(req[r].items),
                             [error |-> "", items |-> <<>>, subtotal |-> 0])
         order == OrderDoc(<<timestamp, randomSuffix>>, req[r].cust, lines,
                           req[r].body, req[r].address)
     IN  IF lines.error # ""
         THEN Reply(r, 400, lines.error, FALSE)
         ELSE IF \E i \in 1..Len(req[r].items) :
                   LET item == req[r].items[i]
                   IN  OrderedIn(orders, item.product) + item.quantity
                         > catalog[item.product].stock
         THEN Reply(r, 400, "Insufficient stock for product", FALSE)
         ELSE IF ~adminReady
         THEN Reply(r, 503, "Service temporarily unavailable", FALSE)
         ELSE Proceed(r, [op |-> "createOrder", pc |-> "persist",
                          cust |-> req[r].cust, body |-> req[r].body,
                          stale |-> req[r].stale, order |-> order])
  /\ UNCHANGED <<carts, addresses, catalog, orders, adminReady, placed, edits>>

(* Product.find, the totals, the readiness check of the order store and    *)
(* the order number ORD-<Date.now()>-<random suffix>.  The step is taken   *)
(* when the handler reaches the readiness check.  With the connection not  *)
(* ready at that time, either Product.find was issued on the connection    *)
(* that was down and failed (the outer catch answers 500), or it had       *)
(* answered before the connection dropped and the handler goes on to the   *)
(* stock check and the readiness check (503).                              *)
CreateOrderProducts(r, timestamp, randomSuffix) ==
  /\ req[r].op = "createOrder"
  /\ req[r].pc = "products"
  /\ LET lines == OrderItems(req[r].items, ProductMap(req[r].items),
                             [error |-> "", items |-> <<>>, subtotal |-> 0])
         order == OrderDoc(<<timestamp, randomSuffix>>, req[r].cust, lines,
                           req[r].body, req[r].address)
     IN  IF ~adminReady
         THEN \/ Reply(r, 500, "Admin database connection not established",
                       FALSE)
              \/ IF lines.error # ""
                 THEN Reply(r, 400, lines.error, FALSE)
                 ELSE Reply(r, 503, "Service temporarily unavailable", FALSE)
         ELSE IF lines.error # ""
         THEN Reply(r, 400, lines.error, FALSE)
         ELSE Proceed(r, [op |-> "createOrder", pc |-> "persist",
                          cust |-> req[r].cust, body |-> req[r].body,
                          stale |-> req[r].stale, order |-> order])
  /\ UNCHANGED <<carts, addresses, catalog, orders, adminReady, placed, edits>>

(* the step with the cart emptied before the order write is known to have *)
(* succeeded                                                               *)
CreateOrderPersistClearing(r, fails) ==
  /\ req[r].op = "createOrder"
  /\ req[r].pc = "persist"
  /\ carts' = [carts EXCEPT ![req[r].cust].items = <<>>]
  /\ IF fails
     THEN /\ Reply(r, 500, "Failed to create order", FALSE)
          /\ UNCHANGED <<orders, placed>>
     ELSE /\ orders' = Append(orders, req[r].order)
          /\ placed' = Append(placed, req[r].body)
          /\ Proceed(r, [req[r] EXCEPT !.pc = "clear"])
  /\ UNCHANGED <<addresses, catalog, adminReady, edits>>

(* AdminOrder.create(order): the model lookup throws when the connection   *)
(* is not ready, the unique index on orderNumber rejects a duplicate, and  *)
(* the write itself may fail; every failure is caught by the inner catch   *)
CreateOrderPersist(r, fails) ==
  /\ req[r].op = "createOrder"
  /\ req[r].pc = "persist"
  /\ IF ~adminReady
     THEN /\ Reply(r, 500, "Admin DB connection not established", FALSE)
          /\ UNCHANGED <<orders, placed>>
     ELSE IF \E i \in 1..Len(orders) :
               orders[i].orderNumber = req[r].order.orderNumber
     THEN /\ Reply(r, 500, "E11000 duplicate key", FALSE)
          /\ UNCHANGED <<orders, placed>>
     ELSE IF fails
     THEN /\ Reply(r, 500, "Failed to create order", FALSE)
          /\ UNCHANGED <<orders, placed>>
     ELSE /\ orders' = Append(orders, req[r].order)
          /\ placed' = Append(placed, req[r].body)
          /\ Proceed(r, [req[r] EXCEPT !.pc = "clear"])
  /\ UNCHANGED <<carts, addresses, catalog, adminReady, edits>>

(* a last step that takes the order back when the cart cannot be cleared *)
CreateOrderClearCompensating(r, fails) ==
  /\ req[r].op = "createOrder"
  /\ req[r].pc = "clear"
  /\ IF fails
     THEN /\ Reply(r, 500, "Failed to save cart", FALSE)
          /\ orders' = SelectSeq(orders, LAMBDA o : o # req[r].order)
          /\ UNCHANGED carts
     ELSE /\ CartSave(r, "overwrite", <<>>, {}, 0, 201)
          /\ UNCHANGED orders
  /\ UNCHANGED <<addresses, catalog, adminReady, placed, edits>>

(* a last step that also takes the ordered quantities from the stock *)
CreateOrderClearDecrementing(r, fails) ==
  /\ req[r].op = "createOrder"
  /\ req[r].pc = "clear"
  /\ catalog' = [p \in Products |->
                   IF catalog[p].exists
                   THEN [catalog[p] EXCEPT
                           !.stock = @ - Min(@, Ordered(req[r].order.items, p))]
                   ELSE catalog[p]]
  /\ IF fails
     THEN /\ Reply(r, 500, "Failed to save cart", FALSE)
          /\ UNCHANGED carts
     ELSE CartSave(r, "overwrite", <<>>, {}, 0, 201)
  /\ UNCHANGED <<addresses, orders, adminReady, placed, edits>>

(* cart.items = []; cart.save(); then the 201 response.  A failure of the  *)
(* save is caught by the same inner catch.                                 *)
CreateOrderClear(r, fails) ==
  /\ req[r].op = "createOrder"
  /\ req[r].pc = "clear"
  /\ IF fails
     THEN /\ Reply(r, 500, "Failed to save cart", FALSE)
          /\ UNCHANGED carts
     ELSE CartSave(r, "overwrite", <<>>, {}, 0, 201)
  /\ UNCHANGED <<addresses, catalog, orders, adminReady, placed, edits>>

(* ------------------------ getOrders, getOrder -------------------------- *)

OrderStatuses ==
  {"PLACED", "PROCESSING", "PACKED", "OUT_FOR_DELIVERY", "DELIVERED",
   "CANCELLED"}

(* a read side that lower-cases the stored status *)
StatusMapLowercase(status) ==
  CASE status = "PLACED" -> "placed"
    [] status = "PROCESSING" -> "processing"
    [] status = "PACKED" -> "packed"
    [] status = "OUT_FOR_DELIVERY" -> "out_for_delivery"
    [] status = "DELIVERED" -> "delivered"
    [] status = "CANCELLED" -> "cancelled"
    [] OTHER -> "placed"

(* statusMap[orderObj.status] || 'placed' *)
StatusMap(status) ==
  CASE status = "PLACED" -> "placed"
    [] status = "PROCESSING" -> "processing"
    [] status = "PACKED" -> "processing"
    [] status = "OUT_FOR_DELIVERY" -> "shipped"
    [] status = "DELIVERED" -> "delivered"
    [] status = "CANCELLED" -> "cancelled"
    [] OTHER -> "placed"

(* a read side that lower-cases the stored payment method *)
ReadPaymentMethodLowercase(paymentMethod) ==
  CASE paymentMethod = "CASH" -> "cash"
    [] paymentMethod = "CARD" -> "card"
    [] paymentMethod = "ONLINE" -> "online"
    [] OTHER -> "other"

(* paymentMethodMap[orderObj.paymentMethod] || 'other' of the read side *)
ReadPaymentMethodMap(paymentMethod) ==
  CASE paymentMethod = "CASH" -> "cod"
    [] paymentMethod = "CARD" -> "card"
    [] paymentMethod = "ONLINE" -> "razorpay"
    [] paymentMethod = "OTHER" -> "other"
    [] OTHER -> "other"

(* paymentStatusMap[orderObj.paymentStatus] || 'pending' of the read side *)
ReadPaymentStatusMap(paymentStatus) ==
  CASE paymentStatus = "PENDING" -> "pending"
    [] paymentStatus = "PAID" -> "paid"
    [] paymentStatus = "FAILED" -> "failed"
    [] paymentStatus = "REFUNDED" -> "refunded"
    [] OTHER -> "pending"

(* a read that follows a reference to the customer's address instead of    *)
(* returning the address stored in the order                               *)
TransformLiveAddress(id) ==
  LET orderObj == orders[id]
      address == addresses[placed[id].addressId]
  IN  [id |-> id,
       orderNumber |-> orderObj.orderNumber,
       customerId |-> orderObj.customer,
       items |-> orderObj.items,
       subtotal |-> orderObj.subtotal,
       tax |-> orderObj.tax,
       deliveryFee |-> orderObj.shipping,
       total |-> orderObj.total,
       address |-> IF address.exists
                   THEN [street |-> address.addressLine1]
                   ELSE NoAddress,
       paymentMethod |-> ReadPaymentMethodMap(orderObj.paymentMethod),
       paymentStatus |-> ReadPaymentStatusMap(orderObj.paymentStatus),
       orderStatus |-> StatusMap(orderObj.status)]

(* the order in the customer application's format; the _id of an order is  *)
(* its position in the order store                                         *)
Transform(id) ==
  LET orderObj == orders[id]
  IN  [id |-> id,
       orderNumber |-> orderObj.orderNumber,
       customerId |-> orderObj.customer,
       items |-> orderObj.items,
       subtotal |-> orderObj.subtotal,
       tax |-> orderObj.tax,
       deliveryFee |-> orderObj.shipping,
       total |-> orderObj.total,
       address |-> orderObj.shippingAddress,
       paymentMethod |-> ReadPaymentMethodMap(orderObj.paymentMethod),
       paymentStatus |-> ReadPaymentStatusMap(orderObj.paymentStatus),
       orderStatus |-> StatusMap(orderObj.status)]

OrdersBody(list) == [kind |-> "orders", orders |-> list]

OrderBody(order) == [kind |-> "order", order |-> order]

(* AdminOrder.find({ customer }).sort({ createdAt: -1 }) over the first n  *)
(* orders of the store, each transformed                                   *)
RECURSIVE FindOrders(_, _)
FindOrders(customer, n) ==
  IF n = 0 THEN <<>>
  ELSE (IF orders[n].customer = customer THEN <<Transform(n)>> ELSE <<>>)
       \o FindOrders(customer, n - 1)

(* getOrders: the proxy of the order model throws when the connection is   *)
(* not ready and the catch answers 500                                     *)
GetOrders(r, c) ==
  /\ Arrive(r)
  /\ IF ~adminReady
     THEN Reject(r, "getOrders", 500, "Admin DB connection not established")
     ELSE Respond(r, "getOrders", 200,
                  OrdersBody(FindOrders(c, Len(orders))))
  /\ UNCHANGED <<carts, addresses, catalog, orders, adminReady, placed>>

(* a findOne by _id alone *)
GetOrderOfAnyone(r, c, orderId) ==
  /\ Arrive(r)
  /\ IF ~adminReady
     THEN Reject(r, "getOrder", 500, "Admin DB connection not established")
     ELSE LET found == orderId \in 1..Len(orders)
          IN  Proceed(r, [op |-> "getOrder", pc |-> "respond", cust |-> c,
                          orderId |-> orderId, found |-> found,
                          adminOrder |-> IF found THEN Transform(orderId)
                                         ELSE NoBody])
  /\ UNCHANGED <<carts, addresses, catalog, orders, adminReady, placed>>

(* getOrder: AdminOrder.findOne({ _id: orderId, customer }); the proxy of  *)
(* the order model throws when the connection is not ready and the catch   *)
(* answers 500                                                             *)
GetOrder(r, c, orderId) ==
  /\ Arrive(r)
  /\ IF ~adminReady
     THEN Reject(r, "getOrder", 500, "Admin DB connection not established")
     ELSE LET found == /\ orderId \in 1..Len(orders)
                       /\ orders[orderId].customer = c
          IN  Proceed(r, [op |-> "getOrder", pc |-> "respond", cust |-> c,
                          orderId |-> orderId, found |-> found,
                          adminOrder |-> IF found THEN Transform(orderId)
                                         ELSE NoBody])
  /\ UNCHANGED <<carts, addresses, catalog, orders, adminReady, placed>>

(* if (!adminOrder) 404, else the transformed order *)
GetOrderRespond(r) ==
  /\ req[r].op = "getOrder"
  /\ req[r].pc = "respond"
  /\ IF ~req[r].found
     THEN Reply(r, 404, "Order not found", FALSE)
     ELSE ReplyWith(r, 200, "", FALSE, OrderBody(req[r].adminOrder))
  /\ UNCHANGED <<carts, addresses, catalog, orders, adminReady, placed,
                 edits>>

(* ----------------------- verifyRazorpayPayment ------------------------- *)

PaymentRefs == {"ref1", "ref2"}

(* crypto.createHmac("sha256", key).update(orderId + "|" + paymentId): a   *)
(* signature is determined by the key and the two references               *)
Hmac(key, razorpayOrderId, razorpayPaymentId) ==
  [key |-> key, order |-> razorpayOrderId, payment |-> razorpayPaymentId]

(* the signatures a caller may send: made with the key of the payment      *)
(* provider for some pair of references, or with another key               *)
Signatures ==
  {Hmac(key, o, p) : key \in {"RAZORPAY_KEY_SECRET", "other"},
                     o \in PaymentRefs, p \in PaymentRefs}

MessageBody(message) == [kind |-> "message", message |-> message]

(* verifyRazorpayPayment: compares the signature with the one it computes  *)
(* and answers; it reads and writes no store                               *)
VerifyRazorpayPayment(r, orderId, paymentId, razorpaySignature) ==
  /\ Arrive(r)
  /\ LET generatedSignature ==
           Hmac("RAZORPAY_KEY_SECRET", orderId, paymentId)
     IN  IF generatedSignature # razorpaySignature
         THEN Reject(r, "verifyRazorpayPayment", 400,
                     "Invalid payment signature")
         ELSE Respond(r, "verifyRazorpayPayment", 200,
                      MessageBody("Payment verified"))
  /\ UNCHANGED <<carts, addresses, catalog, orders, adminReady, placed>>

(* ------------ updateAddress, deleteAddress, setDefaultAddress ---------- *)

AddressBody(address) == [kind |-> "address", address |-> address]

(* Address.updateMany({ user, _id: { $ne: addressId } },                   *)
(*                    { $set: { isDefault: false } })                      *)
UnsetOthers(user, addressId) ==
  [a \in AddressIds |->
     IF addresses[a].exists /\ addresses[a].user = user /\ a # addressId
     THEN [addresses[a] EXCEPT !.isDefault = FALSE]
     ELSE addresses[a]]

(* updateAddress: Address.findOne({ _id: addressId, user }) and the        *)
(* assignments to the document in memory; addressLine1 0 stands for a body *)
(* without addressLine1, isDefault "none" for a body without isDefault     *)
UpdateAddress(r, c, addressId, addressLine1, isDefault) ==
  /\ Arrive(r)
  /\ LET address == FindAddress(addressId, c)
     IN  IF ~address.exists
         THEN Reject(r, "updateAddress", 404, "Address not found")
         ELSE Proceed(r, [op |-> "updateAddress",
                          pc |-> IF isDefault = "true" THEN "unsetOthers"
                                 ELSE "saveAddress",
                          cust |-> c, addressId |-> addressId,
                          address |->
                            [address EXCEPT
                               !.addressLine1 =
                                 IF addressLine1 # 0 THEN addressLine1 ELSE @,
                               !.isDefault =
                                 IF isDefault = "true" THEN TRUE
                                 ELSE IF isDefault = "false" THEN FALSE
                                 ELSE @]])
  /\ UNCHANGED <<carts, addresses, catalog, orders, adminReady, placed>>

(* setDefaultAddress: Address.findOne({ _id: addressId, user }) *)
SetDefaultAddress(r, c, addressId) ==
  /\ Arrive(r)
  /\ LET address == FindAddress(addressId, c)
     IN  IF ~address.exists
         THEN Reject(r, "setDefaultAddress", 404, "Address not found")
         ELSE Proceed(r, [op |-> "setDefaultAddress", pc |-> "unsetOthers",
                          cust |-> c, addressId |-> addressId,
                          address |-> [address EXCEPT !.isDefault = TRUE]])
  /\ UNCHANGED <<carts, addresses, catalog, orders, adminReady, placed>>

(* the updateMany of updateAddress (isDefault === true) and of             *)
(* setDefaultAddress                                                       *)
AddressUnsetOthers(r) ==
  /\ req[r].op \in {"updateAddress", "setDefaultAddress"}
  /\ req[r].pc = "unsetOthers"
  /\ addresses' = UnsetOthers(req[r].cust, req[r].addressId)
  /\ req' = [req EXCEPT ![r].pc = "saveAddress"]
  /\ UNCHANGED <<carts, catalog, orders, adminReady, out, sent, placed,
                 edits>>

(* address.save(): the assigned paths are written to the stored document;  *)
(* the save fails when the document is no longer in the store              *)
AddressSave(r) ==
  /\ req[r].op \in {"updateAddress", "setDefaultAddress"}
  /\ req[r].pc = "saveAddress"
  /\ LET a == req[r].addressId
     IN  IF ~addresses[a].exists
         THEN /\ Reply(r, 500, "No document found for query", FALSE)
              /\ UNCHANGED addresses
         ELSE /\ addresses' =
                   [addresses EXCEPT
                      ![a].addressLine1 = req[r].address.addressLine1,
                      ![a].isDefault = req[r].address.isDefault]
              /\ ReplyWith(r, 200, "", FALSE, AddressBody(req[r].address))
  /\ UNCHANGED <<carts, catalog, orders, adminReady, placed, edits>>

(* deleteAddress: Address.findOne({ _id: addressId, user }) *)
DeleteAddress(r, c, addressId) ==
  /\ Arrive(r)
  /\ IF ~FindAddress(addressId, c).exists
     THEN Reject(r, "deleteAddress", 404, "Address not found")
     ELSE Proceed(r, [op |-> "deleteAddress", pc |-> "delete", cust |-> c,
                      addressId |-> addressId])
  /\ UNCHANGED <<carts, addresses, catalog, orders, adminReady, placed>>

(* Address.findByIdAndDelete(addressId), the $pull from the user's list    *)
(* and the response                                                        *)
DeleteAddressDelete(r) ==
  /\ req[r].op = "deleteAddress"
  /\ req[r].pc = "delete"
  /\ addresses' = [addresses EXCEPT ![req[r].addressId] = NoAddress]
  /\ Reply(r, 200, "", FALSE)
  /\ UNCHANGED <<carts, catalog, orders, adminReady, placed, edits>>

(* ----------------- the connection to the shared store ------------------ *)

(* adminDbConnection.readyState leaves 1 *)
Disconnect ==
  /\ adminReady
  /\ adminReady' = FALSE
  /\ UNCHANGED <<carts, addresses, catalog, orders, req, out, sent, placed,
                 edits>>

(* adminDbConnection.readyState returns to 1 *)
Reconnect ==
  /\ ~adminReady
  /\ adminReady' = TRUE
  /\ UNCHANGED <<carts, addresses, catalog, orders, req, out, sent, placed,
                 edits>>

(* ---------------------- the catalog's owner ---------------------------- *)

(* The operator system owns the catalog: it changes a product's stock and  *)
(* status within the Product schema (stock >= 0, status in the enum).      *)
AdminSetStock(p, stock) ==
  /\ edits > 0
  /\ catalog[p].exists
  /\ catalog[p].stock # stock
  /\ catalog' = [catalog EXCEPT ![p].stock = stock]
  /\ edits' = edits - 1
  /\ UNCHANGED <<carts, addresses, orders, adminReady, req, out, sent,
                 placed>>

AdminSetStatus(p, status) ==
  /\ edits > 0
  /\ catalog[p].exists
  /\ catalog[p].status # status
  /\ catalog' = [catalog EXCEPT ![p].status = status]
  /\ edits' = edits - 1
  /\ UNCHANGED <<carts, addresses, orders, adminReady, req, out, sent,
                 placed>>

(* the operator system removes a product from the catalog *)
AdminDeleteProduct(p) ==
  /\ edits > 0
  /\ catalog[p].exists
  /\ catalog' = [catalog EXCEPT ![p] = NoProduct]
  /\ edits' = edits - 1
  /\ UNCHANGED <<carts, addresses, orders, adminReady, req, out, sent,
                 placed>>

(* the operator system moves an order through its statuses *)
AdminSetOrderStatus(id, status) ==
  /\ edits > 0
  /\ adminReady
  /\ id \in 1..Len(orders)
  /\ orders[id].status # status
  /\ orders' = [orders EXCEPT ![id].status = status]
  /\ edits' = edits - 1
  /\ UNCHANGED <<carts, addresses, catalog, adminReady, req, out, sent,
                 placed>>

(* ------------------------- specifications ------------------------------ *)

GuestItems == [productId : Products, quantity : QtyInputs]

GuestLists == {<<>>} \cup {<<item>> : item \in GuestItems}

OrderBodies ==
  {b \in [addressId : {"", "a1", "a2"}, paymentMethod : PaymentInputs,
          razorpayIds : BOOLEAN, total : ClientTotals] :
     /\ b.razorpayIds => b.paymentMethod = "razorpay"
     /\ b.total # 0 => b.paymentMethod = "cod"}

Admin ==
  \/ \E p \in Products, s \in 0..MaxStock : AdminSetStock(p, s)
  \/ \E p \in Products, st \in Statuses : AdminSetStatus(p, st)
  \/ \E p \in Products : AdminDeleteProduct(p)

(* Checkout: both customers, with carts filled earlier, place orders.      *)
Init ==
  InitWith(
    {[c \in Customers |-> IF c = "c1" THEN x ELSE CartDoc(<<CartItem("p1", 1)>>)] :
       x \in {NoCart, CartDoc(<<>>),
              CartDoc(<<CartItem("p1", 1)>>),
              CartDoc(<<CartItem("p1", 1), CartItem("p2", 1)>>),
              CartDoc(<<CartItem("p1", 1), CartItem("p2", MaxStock)>>)}},
    {[p \in Products |-> ProductDoc(p, "ACTIVE", IF p = "p1" THEN MaxStock ELSE s)] :
       s \in {1, MaxStock}})

Next ==
  \/ \E r \in Slots, c \in Customers, body \in OrderBodies :
       CreateOrder(r, c, body)
  \/ \E r \in Slots, t \in Timestamps, x \in Suffixes :
       CreateOrderProducts(r, t, x)
  \/ \E r \in Slots, fails \in BOOLEAN : CreateOrderPersist(r, fails)
  \/ \E r \in Slots, fails \in BOOLEAN : CreateOrderClear(r, fails)
  \/ Admin

Spec == Init /\ [][Next]_vars

(* The cart: one customer's requests on the cart interleave.               *)
InitCart ==
  InitWith(
    {[c \in Customers |-> IF c = "c1" THEN x ELSE NoCart] :
       x \in {NoCart, CartDoc(<<>>),
              CartDoc(<<CartItem("p1", 1)>>),
              CartDoc(<<CartItem("p2", MaxStock)>>),
              CartDoc(<<CartItem("p1", 1), CartItem("p2", 1)>>)}},
    {[p \in Products |-> ProductDoc(p, "ACTIVE", MaxStock)]})

NextCart ==
  \/ \E r \in Slots : GetCart(r, "c1")
  \/ \E r \in Slots : GetCartCreate(r)
  \/ \E r \in Slots : GetCartPopulate(r)
  \/ \E r \in Slots, p \in Products, q \in QtyInputs :
       AddToCart(r, "c1", p, q)
  \/ \E r \in Slots : AddToCartFindCart(r)
  \/ \E r \in Slots : AddToCartCreate(r)
  \/ \E r \in Slots : AddToCartSave(r)
  \/ \E r \in Slots, p \in Products, q \in QtyInputs :
       UpdateCartItem(r, "c1", p, q)
  \/ \E r \in Slots : UpdateCartItemFindCart(r)
  \/ \E r \in Slots : UpdateCartItemSave(r)
  \/ \E r \in Slots, p \in Products : RemoveFromCart(r, "c1", p)
  \/ \E r \in Slots : RemoveFromCartSave(r)
  \/ \E r \in Slots : ClearCart(r, "c1")
  \/ \E r \in Slots : ClearCartSave(r)
  \/ \E r \in Slots, isArray \in BOOLEAN, guest \in GuestLists :
       SyncGuestCart(r, "c1", isArray, guest)
  \/ \E r \in Slots : SyncGuestCartCreate(r)
  \/ \E r \in Slots : SyncGuestCartMerge(r)
  \/ \E r \in Slots : SyncGuestCartSave(r)
  \/ \E r \in Slots :
       CreateOrder(r, "c1", [addressId |-> "a1", paymentMethod |-> "cod",
                             razorpayIds |-> FALSE, total |-> 0])
  \/ \E r \in Slots, t \in Timestamps, x \in Suffixes :
       CreateOrderProducts(r, t, x)
  \/ \E r \in Slots, fails \in BOOLEAN : CreateOrderPersist(r, fails)
  \/ \E r \in Slots, fails \in BOOLEAN : CreateOrderClear(r, fails)
  \/ Admin

SpecCart == InitCart /\ [][NextCart]_vars

(* Guest-cart merge: requests whose list has up to two lines, while the    *)
(* catalog's owner edits the catalog.                                      *)
GuestPairs ==
  LET lines == [productId : Products, quantity : {1, MaxStock}]
  IN  GuestLists \cup {<<a, b>> : a \in lines, b \in lines}

NextSync ==
  \/ \E r \in Slots, isArray \in BOOLEAN, guest \in GuestPairs :
       SyncGuestCart(r, "c1", isArray, guest)
  \/ \E r \in Slots : SyncGuestCartCreate(r)
  \/ \E r \in Slots : SyncGuestCartMerge(r)
  \/ \E r \in Slots : SyncGuestCartSave(r)
  \/ Admin

SpecSync == InitCart /\ [][NextSync]_vars

(* The orders: customers with filled carts place orders and read them      *)
(* back, the operator system moves the orders through their statuses and   *)
(* the connection to the shared store comes and goes.  The order store     *)
(* starts empty or with an order that c2 placed earlier.                   *)
ReadPaymentInputs == {"cod", "razorpay", "card", "upi"}

ReadBodies ==
  {b \in [addressId : AddressIds, paymentMethod : ReadPaymentInputs,
          razorpayIds : BOOLEAN, total : {0}] :
     b.razorpayIds <=> b.paymentMethod = "razorpay"}

EarlierBody ==
  [addressId |-> "a2", paymentMethod |-> "cod", razorpayIds |-> FALSE,
   total |-> 0]

EarlierOrder ==
  OrderDoc(<<0, "A">>, "c2",
           [error |-> "", subtotal |-> Price["p2"],
            items |-> <<[product |-> "p2", quantity |-> 1,
                         price |-> Price["p2"], subtotal |-> Price["p2"]]>>],
           EarlierBody, AddressDoc("c2"))

InitOrders ==
  /\ carts = [c \in Customers |-> CartDoc(<<CartItem("p1", 1)>>)]
  /\ addresses = [a \in AddressIds |->
                    AddressDoc(IF a = "a1" THEN "c1" ELSE "c2")]
  /\ catalog = [p \in Products |-> ProductDoc(p, "ACTIVE", MaxStock)]
  /\ \E seeded \in BOOLEAN :
       /\ orders = IF seeded THEN <<EarlierOrder>> ELSE <<>>
       /\ placed = IF seeded THEN <<EarlierBody>> ELSE <<>>
  /\ adminReady = TRUE
  /\ req = [r \in Slots |-> Idle]
  /\ out = Response("none", 0, "")
  /\ sent = NoBody
  /\ edits = MaxEdits

OrderIds == {1, 2, 3}

NextOrders ==
  \/ \E r \in Slots, c \in Customers, body \in ReadBodies :
       CreateOrder(r, c, body)
  \/ \E r \in Slots, t \in Timestamps, x \in Suffixes :
       CreateOrderProducts(r, t, x)
  \/ \E r \in Slots, fails \in BOOLEAN : CreateOrderPersist(r, fails)
  \/ \E r \in Slots, fails \in BOOLEAN : CreateOrderClear(r, fails)
  \/ \E r \in Slots, c \in Customers : GetOrders(r, c)
  \/ \E r \in Slots, c \in Customers, orderId \in OrderIds :
       GetOrder(r, c, orderId)
  \/ \E r \in Slots : GetOrderRespond(r)
  \/ \E id \in OrderIds, status \in OrderStatuses :
       AdminSetOrderStatus(id, status)
  \/ Disconnect
  \/ Reconnect

SpecOrders == InitOrders /\ [][NextOrders]_vars

(* The addresses: customer c2, who has two addresses and may have placed   *)
(* an order earlier, places orders, edits and deletes addresses and reads  *)
(* orders back; c1 has no address.                                         *)
AddressLines == {0, 2}

IsDefaultInputs == {"none", "true", "false"}

AddressBodies ==
  [addressId : AddressIds, paymentMethod : {"cod"}, razorpayIds : {FALSE},
   total : {0}]

InitAddress ==
  /\ carts = [c \in Customers |-> CartDoc(<<CartItem("p1", 1)>>)]
  /\ addresses = [a \in AddressIds |->
                    [AddressDoc("c2") EXCEPT !.isDefault = (a = "a1")]]
  /\ catalog = [p \in Products |-> ProductDoc(p, "ACTIVE", MaxStock)]
  /\ \E seeded \in BOOLEAN :
       /\ orders = IF seeded THEN <<EarlierOrder>> ELSE <<>>
       /\ placed = IF seeded THEN <<EarlierBody>> ELSE <<>>
  /\ adminReady = TRUE
  /\ req = [r \in Slots |-> Idle]
  /\ out = Response("none", 0, "")
  /\ sent = NoBody
  /\ edits = MaxEdits

NextAddress ==
  \/ \E r \in Slots, c \in Customers, body \in AddressBodies :
       CreateOrder(r, c, body)
  \/ \E r \in Slots, t \in Timestamps, x \in Suffixes :
       CreateOrderProducts(r, t, x)
  \/ \E r \in Slots, fails \in BOOLEAN : CreateOrderPersist(r, fails)
  \/ \E r \in Slots, fails \in BOOLEAN : CreateOrderClear(r, fails)
  \/ \E r \in Slots, c \in Customers : GetOrders(r, c)
  \/ \E r \in Slots, c \in Customers, orderId \in OrderIds :
       GetOrder(r, c, orderId)
  \/ \E r \in Slots : GetOrderRespond(r)
  \/ \E r \in Slots, c \in Customers, a \in AddressIds,
        line \in AddressLines, isDefault \in IsDefaultInputs :
       UpdateAddress(r, c, a, line, isDefault)
  \/ \E r \in Slots, c \in Customers, a \in AddressIds :
       SetDefaultAddress(r, c, a)
  \/ \E r \in Slots : AddressUnsetOthers(r)
  \/ \E r \in Slots : AddressSave(r)
  \/ \E r \in Slots, c \in Customers, a \in AddressIds :
       DeleteAddress(r, c, a)
  \/ \E r \in Slots : DeleteAddressDelete(r)

SpecAddress == InitAddress /\ [][NextAddress]_vars

(* The payment: customer c1 verifies payments and places orders. *)
PaymentBodies ==
  {b \in [addressId : {"a1"}, paymentMethod : {"cod", "razorpay", "card"},
          razorpayIds : BOOLEAN, total : {0}] :
     b.razorpayIds => b.paymentMethod = "razorpay"}

InitPayment ==
  InitWith({[c \in Customers |->
               CartDoc(<<CartItem("p1", 1), CartItem("p2", MaxStock)>>)]},
           {[p \in Products |-> ProductDoc(p, "ACTIVE", MaxStock)]})

NextPayment ==
  \/ \E r \in Slots, body \in PaymentBodies : CreateOrder(r, "c1", body)
  \/ \E r \in Slots, t \in Timestamps, x \in Suffixes :
       CreateOrderProducts(r, t, x)
  \/ \E r \in Slots, fails \in BOOLEAN : CreateOrderPersist(r, fails)
  \/ \E r \in Slots, fails \in BOOLEAN : CreateOrderClear(r, fails)
  \/ \E r \in Slots, o \in PaymentRefs, p \in PaymentRefs,
        signature \in Signatures :
       VerifyRazorpayPayment(r, o, p, signature)

SpecPayment == InitPayment /\ [][NextPayment]_vars

(* ------------------------------ claims --------------------------------- *)

(* the request in slot r takes the step that ends its stage pc *)
Leaves(r, op, pc) ==
  /\ req[r].op = op
  /\ req[r].pc = pc
  /\ \/ req'[r] = Closed
     \/ req'[r].pc # pc

(* a request of operation op arrives in slot r in this step *)
Arrives(r, op) ==
  /\ req[r] = Idle
  /\ req'[r] # Idle
  /\ IF req'[r] = Closed THEN out'.op = op ELSE req'[r].op = op

(* the request in slot r sends its response in this step *)
Ends(r, op, pc) ==
  /\ req[r].op = op
  /\ req[r].pc = pc
  /\ req'[r] = Closed

(* line i of the cart read by the createOrder request in slot r resolves   *)
(* to an active product whose stock is below the line's quantity           *)
OverStock(r, i) ==
  LET item == req[r].items[i]
  IN  /\ catalog[item.product].exists
      /\ catalog[item.product].status = "ACTIVE"
      /\ catalog[item.product].stock < item.quantity

Unresolved(r, i) ==
  LET item == req[r].items[i]
  IN  \/ ~catalog[item.product].exists
      \/ catalog[item.product].status # "ACTIVE"

StockConflict == Response("createOrder", 400, "Insufficient stock for product")

(* C1 as stated: a createOrder that resolves its cart while some line's    *)
(* quantity exceeds the stock of its resolved product is rejected with the *)
(* stock-conflict error, persists no order and leaves the carts as they    *)
(* are.                                                                    *)
C1_Original ==
  [][\A r \in Slots :
       (/\ Leaves(r, "createOrder", "products")
        /\ \E i \in 1..Len(req[r].items) : OverStock(r, i))
       => /\ req'[r] = Closed
          /\ out' = StockConflict
          /\ orders' = orders
          /\ carts' = carts]_vars

(* C1 amended: such a createOrder is rejected with status 400, persists no *)
(* order and leaves the carts as they are; the error is the stock conflict *)
(* when no line before the first over-stock line is unresolved, and        *)
(* "Product not found for item in cart" otherwise.                         *)
C1_StockConflict ==
  [][\A r \in Slots :
       (/\ Leaves(r, "createOrder", "products")
        /\ \E i \in 1..Len(req[r].items) : OverStock(r, i))
       => LET first == CHOOSE i \in 1..Len(req[r].items) :
                         /\ OverStock(r, i)
                         /\ \A j \in 1..(i - 1) : ~OverStock(r, j)
          IN  /\ req'[r] = Closed
              /\ orders' = orders
              /\ carts' = carts
              /\ out' = IF \A j \in 1..(first - 1) : ~Unresolved(r, j)
                        THEN StockConflict
                        ELSE Response("createOrder", 400,
                                      "Product not found for item in cart")]_vars

(* a stock conflict was reported for a cart line above the product's stock *)
C1_Witness ==
  /\ out = StockConflict
  /\ orders = <<>>
  /\ \E c \in Customers :
       /\ carts[c].exists
       /\ \E i \in 1..Len(carts[c].items) :
            carts[c].items[i].quantity > catalog[carts[c].items[i].product].stock

(* C2: a createOrder request changes a cart only in its clear step, after  *)
(* its order is in the order store, and then empties its own customer's    *)
(* cart; a createOrder whose order write fails ends with status 500 and    *)
(* leaves carts and orders as they are.                                    *)
C2_ClearAfterPersist ==
  [][\A r \in Slots :
       /\ Arrives(r, "createOrder") => carts' = carts
       /\ (\E pc \in {"products", "persist", "clear"} :
             Leaves(r, "createOrder", pc) /\ carts' # carts)
          => /\ req[r].pc = "clear"
             /\ \E i \in 1..Len(orders) :
                  /\ orders[i] = req[r].order
                  /\ orders[i].customer = req[r].cust
             /\ carts' = [carts EXCEPT ![req[r].cust].items = <<>>]
       /\ Ends(r, "createOrder", "persist")
          => /\ out'.status = 500
             /\ carts' = carts
             /\ orders' = orders]_vars

(* an order was placed and the cart of its customer emptied *)
C2_Witness ==
  /\ out = Response("createOrder", 201, "")
  /\ \E i \in 1..Len(orders) : carts[orders[i].customer].items = <<>>

(* every line read by the createOrder request in slot r resolves to an     *)
(* active product with stock for the line's quantity                       *)
PassesValidation(r) ==
  \A i \in 1..Len(req[r].items) : ~Unresolved(r, i) /\ ~OverStock(r, i)

(* C3: the stock check of createOrder compares each cart line with the     *)
(* stock in the catalog alone and no step of createOrder changes the       *)
(* catalog: a request whose lines are all within the catalog's stock       *)
(* passes validation whatever orders are already persisted for the same    *)
(* product, so two concurrent requests can both pass and both persist.     *)
C3_CheckIgnoresOrders ==
  [][\A r \in Slots :
       /\ (Leaves(r, "createOrder", "products") /\ PassesValidation(r)
             /\ adminReady)
          => /\ req'[r] # Closed
             /\ req'[r].pc = "persist"
             /\ req'[r].order.items =
                  [i \in 1..Len(req[r].items) |->
                     [product |-> req[r].items[i].product,
                      quantity |-> req[r].items[i].quantity,
                      price |-> catalog[req[r].items[i].product].price,
                      subtotal |-> catalog[req[r].items[i].product].price
                                     * req[r].items[i].quantity]]
       /\ (\E pc \in {"products", "persist", "clear"} :
             Leaves(r, "createOrder", pc))
          => catalog' = catalog]_vars

(* oversell: two createOrder requests are in flight, both have persisted   *)
(* their order, each order takes no more of some product than its stock,   *)
(* and together they take more                                             *)
C3_Witness ==
  /\ \A r \in Slots : req[r].op = "createOrder" /\ req[r].pc = "clear"
  /\ Len(orders) = 2
  /\ \E p \in Products :
       /\ catalog[p].exists
       /\ \A i \in 1..2 : /\ Ordered(orders[i].items, p) >= 1
                          /\ Ordered(orders[i].items, p) <= catalog[p].stock
       /\ OrderedIn(orders, p) > catalog[p].stock

(* the sum over the order lines of unit price times quantity *)
RECURSIVE LineSum(_)
LineSum(lines) ==
  IF lines = <<>> THEN 0
  ELSE Head(lines).price * Head(lines).quantity + LineSum(Tail(lines))

Abs(n) == IF n < 0 THEN 0 - n ELSE n

(* C4: every persisted order has total = subtotal + tax + shipping within  *)
(* 0.01 currency unit, and its subtotal is the sum over its lines of unit  *)
(* price times quantity.                                                   *)
C4_TotalIsSum ==
  \A i \in 1..Len(orders) :
    /\ Abs(orders[i].total
           - (orders[i].subtotal + orders[i].tax + orders[i].shipping))
         <= Unit \div 100
    /\ orders[i].subtotal = LineSum(orders[i].items)

(* an order with a delivery fee and an order of two lines are persisted *)
C4_Witness ==
  /\ \E i \in 1..Len(orders) : orders[i].shipping > 0 /\ orders[i].tax > 0
  /\ \E i \in 1..Len(orders) : Len(orders[i].items) = 2

(* C5: the tax of every persisted order is exactly 18% of its subtotal,    *)
(* the subtotal is computed from the cart lines at the catalog's prices,   *)
(* and two persisted orders of the same lines have the same subtotal, tax, *)
(* shipping and total whatever amounts their request bodies carried.       *)
C5_TaxAndServerTotals ==
  \A i \in 1..Len(orders) :
    /\ orders[i].tax * 100 = orders[i].subtotal * 18
    /\ \A k \in 1..Len(orders[i].items) :
         orders[i].items[k].price = Price[orders[i].items[k].product]
    /\ orders[i].subtotal = LineSum(orders[i].items)
    /\ \A j \in 1..Len(orders) :
         orders[i].items = orders[j].items
         => /\ orders[i].subtotal = orders[j].subtotal
            /\ orders[i].tax = orders[j].tax
            /\ orders[i].shipping = orders[j].shipping
            /\ orders[i].total = orders[j].total

(* two orders were persisted from requests that differ only in the total   *)
(* the client supplied                                                     *)
C5_Witness ==
  \E i, j \in 1..Len(orders) :
    /\ placed[i].total # placed[j].total
    /\ placed[i].addressId = placed[j].addressId
    /\ placed[i].paymentMethod = placed[j].paymentMethod
    /\ orders[i].items = orders[j].items
    /\ orders[i].tax > 0

SetsLine(c, i, q) ==
  carts' = [carts EXCEPT ![c].items[i].quantity = q]

(* C7: a successful addToCart stores, for its product, a line whose        *)
(* quantity is the merged quantity of this call and is at most the stock   *)
(* the call read: the only line of the cart it creates, the line it        *)
(* appends, or the existing line it assigns (when the merged quantity is   *)
(* the one the line already has, nothing is written).  A call whose merged *)
(* quantity exceeds that stock is rejected and leaves the carts unchanged. *)
C7_MergedWithinStock ==
  [][\A r \in Slots :
       /\ (Arrives(r, "addToCart") /\ req'[r] # Closed)
          => /\ req'[r].availableStock
                  = AvailableStock(catalog[req'[r].productId])
             /\ req'[r].quantity <= req'[r].availableStock
       /\ (Ends(r, "addToCart", "create") /\ out'.status = 200)
          => /\ carts'[req[r].cust].items
                  = <<CartItem(req[r].productId, req[r].quantity)>>
             /\ req[r].quantity <= req[r].availableStock
       /\ Leaves(r, "addToCart", "findCart")
          => LET cart == carts[req[r].cust]
                 i == FindIndex(cart.items, req[r].productId)
             IN  /\ carts' = carts
                 /\ (cart.exists /\ i > 0
                       /\ cart.items[i].quantity + req[r].quantity
                            > req[r].availableStock)
                    => /\ req'[r] = Closed
                       /\ out' = Response("addToCart", 400,
                                          "Insufficient stock")
                 /\ (req'[r] # Closed /\ req'[r].pc = "save")
                    => LET k == FindIndex(req'[r].items, req[r].productId)
                       IN  /\ k > 0
                           /\ req'[r].items[k].quantity
                                = (IF i > 0 THEN cart.items[i].quantity ELSE 0)
                                    + req[r].quantity
       /\ (Ends(r, "addToCart", "save") /\ out'.status = 200)
          => LET c == req[r].cust
                 k == FindIndex(req[r].items, req[r].productId)
                 n == Len(carts'[c].items)
             IN  /\ req[r].items[k].quantity <= req[r].availableStock
                 /\ CASE req[r].kind = "push" ->
                           /\ carts'[c].items
                                = Append(carts[c].items, req[r].items[k])
                           /\ carts'[c].items[n].product = req[r].productId
                      [] req[r].kind = "set" ->
                           /\ SetsLine(c, k, req[r].items[k].quantity)
                           /\ carts'[c].items[k].product = req[r].productId
                      [] OTHER -> carts' = carts]_vars

(* the one request so far was an addToCart that merged into the first     *)
(* line of a cart of two lines and brought it to the product's stock       *)
C7_Witness ==
  /\ out = Response("addToCart", 200, "")
  /\ req[1] = Closed
  /\ req[2] = Idle
  /\ carts["c1"].exists
  /\ carts["c1"].items = <<CartItem("p1", MaxStock), CartItem("p2", 1)>>
  /\ catalog["p1"].stock = MaxStock

(* C8 as stated: addToCart for a product that is absent from the catalog   *)
(* or whose status is not ACTIVE is rejected with 404 and leaves the carts *)
(* unchanged.                                                              *)
C8_InactiveRejected ==
  [][\A r \in Slots, p \in Products, q \in QtyInputs :
       (/\ AddToCart(r, "c1", p, q)
        /\ \/ ~catalog[p].exists
           \/ catalog[p].status # "ACTIVE")
       => /\ req'[r] = Closed
          /\ out' = Response("addToCart", 404, "Product not found")
          /\ carts' = carts]_vars

(* C9: updateCartItem with a quantity below 1 is rejected with 400, with a *)
(* quantity above the product's stock is rejected with 400, and for a      *)
(* missing product, cart or line it is rejected with 404; every rejection  *)
(* leaves the carts unchanged.  A successful call returns the cart with    *)
(* the line at the quantity asked for, and its write sets the quantity of  *)
(* that line and changes nothing else (it writes nothing when the line     *)
(* already had that quantity).                                             *)
C9_SetQuantity ==
  [][\A r \in Slots :
       /\ \A p \in Products, q \in QtyInputs :
            UpdateCartItem(r, "c1", p, q)
            => /\ carts' = carts
               /\ q < 1 => /\ req'[r] = Closed
                           /\ out' = Response("updateCartItem", 400,
                                              "Quantity must be at least 1")
               /\ (q >= 1 /\ ~catalog[p].exists)
                  => /\ req'[r] = Closed
                     /\ out'.status = 404
               /\ (q >= 1 /\ catalog[p].exists /\ q > catalog[p].stock)
                  => /\ req'[r] = Closed
                     /\ out' = Response("updateCartItem", 400,
                                        "Insufficient stock")
       /\ Leaves(r, "updateCartItem", "findCart")
          => LET cart == carts[req[r].cust]
             IN  /\ carts' = carts
                 /\ (\/ ~cart.exists
                     \/ FindIndex(cart.items, req[r].productId) = 0)
                    => /\ req'[r] = Closed
                       /\ out'.status = 404
       /\ Ends(r, "updateCartItem", "save")
          => LET c == req[r].cust
                 k == FindIndex(req[r].items, req[r].productId)
             IN  IF out'.status = 200
                 THEN /\ k > 0
                      /\ req[r].quantity >= 1
                      /\ req[r].items[k].quantity = req[r].quantity
                      /\ IF req[r].kind = "set"
                         THEN /\ SetsLine(c, k, req[r].quantity)
                              /\ carts[c].items[k].product = req[r].productId
                         ELSE carts' = carts
                 ELSE carts' = carts]_vars

(* the one request so far was an updateCartItem that raised the second    *)
(* line of a cart of two lines and left the first as it was                *)
C9_Witness ==
  /\ out = Response("updateCartItem", 200, "")
  /\ req[1] = Closed
  /\ req[2] = Idle
  /\ carts["c1"].exists
  /\ carts["c1"].items = <<CartItem("p1", 1), CartItem("p2", MaxStock)>>

(* C10: every line of every stored cart has a quantity of at least 1. *)
C10_QuantityAtLeastOne ==
  \A c \in Customers :
    carts[c].exists
    => \A i \in 1..Len(carts[c].items) : carts[c].items[i].quantity >= 1

(* a request that would have stored a quantity below 1 was refused by the  *)
(* schema while the customer's cart holds lines                            *)
C10_Witness ==
  /\ out.status = 500
  /\ out.error = "Cart validation failed"
  /\ out.op \in {"addToCart", "syncGuestCart"}
  /\ carts["c1"].exists
  /\ carts["c1"].items # <<>>

(* the request in slot r takes one turn of the merge loop in this step *)
LoopTurn(r) ==
  /\ req[r].op = "syncGuestCart"
  /\ req[r].pc = "merge"
  /\ req[r].guest # <<>>
  /\ \/ req'[r] = Closed
     \/ req'[r].guest # req[r].guest

Resolves(item) ==
  /\ catalog[item.product].exists
  /\ catalog[item.product].status = "ACTIVE"

(* the stored lines of customer c, none when the customer has no cart *)
StoredLines(store, c) == IF store[c].exists THEN store[c].items ELSE <<>>

(* C12: no step of getCart changes the stored lines of any cart, and its   *)
(* response holds, in order, the lines it read whose product is ACTIVE in  *)
(* the catalog.  The responses of addToCart, updateCartItem,               *)
(* removeFromCart and syncGuestCart hold the lines of the document in      *)
(* memory whose product is ACTIVE, while the save before them stores the   *)
(* document's lines whether their product resolves or not.                 *)
C12_ReadKeepsLines ==
  [][\A r \in Slots :
       /\ (\/ Arrives(r, "getCart")
           \/ Leaves(r, "getCart", "create")
           \/ Leaves(r, "getCart", "populate"))
          => \A c \in Customers : StoredLines(carts', c) = StoredLines(carts, c)
       /\ Ends(r, "getCart", "populate")
          => /\ out' = Response("getCart", 200, "")
             /\ sent' = CartBody(SelectSeq(req[r].items, Resolves))
       /\ (/\ req[r].op \in {"addToCart", "updateCartItem", "removeFromCart",
                             "syncGuestCart"}
           /\ req[r].pc \in {"save", "merge"}
           /\ req'[r] = Closed
           /\ out'.status = 200)
          => LET c == req[r].cust
                 old == carts[c].items
                 new == carts'[c].items
             IN  /\ sent' = CartBody(SelectSeq(req[r].items, Resolves))
                 /\ IF new = req[r].items THEN TRUE
                    ELSE /\ Len(new) >= Len(old)
                         /\ \A j \in 1..Len(old) :
                              new[j].product = old[j].product]_vars

(* a getCart was answered without a line that the stored cart holds *)
C12_Witness ==
  /\ out = Response("getCart", 200, "")
  /\ sent.kind = "cart"
  /\ carts["c1"].exists
  /\ Len(sent.items) < Len(carts["c1"].items)
  /\ \E i \in 1..Len(carts["c1"].items) : ~Resolves(carts["c1"].items[i])

(* the operations that create the customer's cart on first access *)
FirstAccess == {"getCart", "addToCart", "syncGuestCart"}

(* C13: a customer's cart, once it exists, exists in every later state;    *)
(* a cart comes into existence only by the Cart.create of a first-access   *)
(* request that finds none; and a Cart.create that meets the cart another  *)
(* request created in between is rejected by the unique index on user: it  *)
(* fails (with the duplicate-key error, or with the validation error of a  *)
(* document that would not have been stored anyway), leaves every cart as  *)
(* it is and stores no second cart for the customer.                       *)
C13_OneCartForever ==
  [][/\ \A c \in Customers :
          /\ carts[c].exists => carts'[c].exists
          /\ (~carts[c].exists /\ carts'[c].exists)
             => \E r \in Slots, op \in FirstAccess :
                  /\ Leaves(r, op, "create")
                  /\ req[r].cust = c
     /\ \A r \in Slots, op \in FirstAccess :
          (Leaves(r, op, "create") /\ carts[req[r].cust].exists)
          => /\ carts' = carts
             /\ req'[r] = Closed
             /\ out'.op = op
             /\ out'.status = 500
             /\ out'.error \in {"E11000 duplicate key",
                                "Cart validation failed"}]_vars

(* of two interleaved first accesses, one created the cart and the other's *)
(* Cart.create was rejected                                                *)
C13_Witness ==
  /\ carts["c1"].exists
  /\ out.op \in FirstAccess
  /\ out.status = 500
  /\ out.error = "E11000 duplicate key"
  /\ \A r \in Slots : req[r] = Closed

(* the positions in the order store of the orders of customer c *)
OrdersOf(c) == {id \in 1..Len(orders) : orders[id].customer = c}

(* C14: a getOrder for an order that belongs to another customer finds     *)
(* nothing, exactly as a getOrder for an identifier that matches no order, *)
(* and both are answered 404 "Order not found" without a body; an order    *)
(* that is returned is the requested one and belongs to the requester.     *)
(* getOrders returns the requester's orders, all of them and no others.    *)
C14_OwnOrdersOnly ==
  [][\A r \in Slots :
       /\ (Arrives(r, "getOrder") /\ req'[r] # Closed)
          => (req'[r].found <=> req'[r].orderId \in OrdersOf(req'[r].cust))
       /\ Ends(r, "getOrder", "respond")
          => IF req[r].found
             THEN /\ out' = Response("getOrder", 200, "")
                  /\ sent'.kind = "order"
                  /\ sent'.order.id = req[r].orderId
                  /\ sent'.order.customerId = req[r].cust
             ELSE /\ out' = Response("getOrder", 404, "Order not found")
                  /\ sent' = NoBody
       /\ \A c \in Customers :
            (GetOrders(r, c) /\ adminReady)
            => /\ out' = Response("getOrders", 200, "")
               /\ sent'.kind = "orders"
               /\ Len(sent'.orders) = Cardinality(OrdersOf(c))
               /\ {sent'.orders[i].id : i \in 1..Len(sent'.orders)}
                    = OrdersOf(c)
               /\ \A i \in 1..Len(sent'.orders) :
                    sent'.orders[i].customerId = c]_vars

(* c1 has asked for the order of c2 and the lookup found nothing *)
C14_Witness ==
  \E r \in Slots :
    /\ req[r].op = "getOrder"
    /\ req[r].pc = "respond"
    /\ req[r].cust = "c1"
    /\ req[r].orderId \in 1..Len(orders)
    /\ orders[req[r].orderId].customer = "c2"
    /\ ~req[r].found

(* C15 as stated: a step of createOrder, getOrders or getOrder that turns   *)
(* to the shared store while its connection is not ready ends the request  *)
(* with 503 (a createOrder whose cart lines failed the stock check on data *)
(* read before the connection dropped may still answer 400), never with an *)
(* internal error; it persists no order and changes no cart.               *)
C15_Unavailable ==
  [][\A r \in Slots :
       (/\ ~adminReady
        /\ \/ Arrives(r, "getOrders")
           \/ Arrives(r, "getOrder")
           \/ Leaves(r, "createOrder", "products")
           \/ Leaves(r, "createOrder", "persist"))
       => /\ req'[r] = Closed
          /\ out'.status \in {400, 503}
          /\ out'.status = 400 => out'.op = "createOrder"
          /\ orders' = orders
          /\ carts' = carts]_vars

(* the order that createOrder is about to persist carries the order number *)
(* of a persisted order                                                    *)
Collides(r) ==
  /\ req[r].op = "createOrder"
  /\ req[r].pc = "persist"
  /\ \E i \in 1..Len(orders) :
       orders[i].orderNumber = req[r].order.orderNumber

(* C16 as stated: the persisted orders have pairwise distinct order        *)
(* numbers, and a createOrder whose order number is that of a persisted    *)
(* order leaves the orders and the carts as they are and is answered as a  *)
(* conflict (409), not as an internal error.                               *)
C16_RetryableConflict ==
  [][/\ \A i, j \in 1..Len(orders') :
          orders'[i].orderNumber = orders'[j].orderNumber => i = j
     /\ \A r \in Slots :
          (Collides(r) /\ Leaves(r, "createOrder", "persist"))
          => /\ orders' = orders
             /\ carts' = carts
             /\ req'[r] = Closed
             /\ out'.op = "createOrder"
             /\ out'.status = 409]_vars

(* the createOrder request in slot r has generated its order number *)
Numbered(r) ==
  /\ req[r].op = "createOrder"
  /\ req[r].pc \in {"persist", "clear"}

(* C17 as stated: the order numbers generated by two createOrder attempts  *)
(* differ, also when both read the same timestamp.                         *)
C17_DistinctNumbers ==
  \A r1, r2 \in Slots :
    (r1 # r2 /\ Numbered(r1) /\ Numbered(r2))
    => req[r1].order.orderNumber # req[r2].order.orderNumber

(* the table of the customer-to-shared payment-method translation *)
C18_Table(paymentMethod) ==
  CASE paymentMethod = "cod" -> "CASH"
    [] paymentMethod = "razorpay" -> "ONLINE"
    [] paymentMethod = "card" -> "CARD"
    [] OTHER -> "OTHER"

(* C18 as stated: the order that createOrder builds, and every persisted   *)
(* order, carries the payment method that the table gives for the payment  *)
(* method of the request body.                                             *)
C18_PaymentTable ==
  /\ \A r \in Slots :
       Numbered(r)
       => req[r].order.paymentMethod = C18_Table(req[r].body.paymentMethod)
  /\ \A id \in 1..Len(orders) :
       orders[id].paymentMethod = C18_Table(placed[id].paymentMethod)

(* what a customer reads back for an order created with paymentMethod *)
ReadsBack(paymentMethod, read) ==
  /\ paymentMethod \in {"cod", "razorpay"} => read = paymentMethod
  /\ paymentMethod = "upi" => read = "other"

(* C19: the payment method that getOrder and getOrders return for an order *)
(* is the one of the request that created it when that was cod or          *)
(* razorpay, and "other" when it was a method that the translation does    *)
(* not know (upi).  (card is the subject of C18.)  placed[id] is the body  *)
(* of the createOrder request that persisted orders[id].                   *)
C19_PaymentRoundTrip ==
  [][\A r \in Slots :
       /\ (Arrives(r, "getOrder") /\ req'[r] # Closed /\ req'[r].found)
          => ReadsBack(placed[req'[r].orderId].paymentMethod,
                       req'[r].adminOrder.paymentMethod)
       /\ (Ends(r, "getOrder", "respond") /\ req[r].found)
          => sent' = OrderBody(req[r].adminOrder)
       /\ (Arrives(r, "getOrders") /\ adminReady)
          => \A i \in 1..Len(sent'.orders) :
               ReadsBack(placed[sent'.orders[i].id].paymentMethod,
                         sent'.orders[i].paymentMethod)]_vars

(* getOrders returned an order created with cod as "cod" and an order      *)
(* created with upi as "other"                                             *)
C19_Witness ==
  /\ out = Response("getOrders", 200, "")
  /\ sent.kind = "orders"
  /\ \E i, j \in 1..Len(sent.orders) :
       /\ placed[sent.orders[i].id].paymentMethod = "cod"
       /\ sent.orders[i].paymentMethod = "cod"
       /\ placed[sent.orders[j].id].paymentMethod = "upi"
       /\ sent.orders[j].paymentMethod = "other"

(* the customer's word for a shared order status, as the claim lists them *)
C20_Table(status) ==
  CASE status = "PACKED" -> "processing"
    [] status = "PROCESSING" -> "processing"
    [] status = "OUT_FOR_DELIVERY" -> "shipped"
    [] status = "PLACED" -> "placed"
    [] status = "DELIVERED" -> "delivered"
    [] status = "CANCELLED" -> "cancelled"

C21_PaymentStatus ==
  [][/\ \A r \in Slots :
          (Leaves(r, "createOrder", "persist") /\ req'[r] # Closed)
          => LET order == orders'[Len(orders')]
             IN  /\ Len(orders') = Len(orders) + 1
                 /\ order.status = "PLACED"
                 /\ order.paymentStatus
                      = IF req[r].body.paymentMethod = "cod"
                        THEN "PENDING" ELSE "PAID"
     /\ \A id \in 1..Len(orders') :
          orders'[id].paymentStatus
            = IF placed'[id].paymentMethod = "cod" THEN "PENDING" ELSE "PAID"]_vars

(* a createOrder paid through razorpay ended with 201 and its order is in  *)
(* the store as PLACED and PAID                                            *)
C21_Witness ==
  /\ out = Response("createOrder", 201, "")
  /\ Len(orders) > 0
  /\ placed[Len(orders)].paymentMethod = "razorpay"
  /\ orders[Len(orders)].paymentStatus = "PAID"
  /\ orders[Len(orders)].status = "PLACED"

(* C22: a createOrder that resolves a cart holding a line whose product is *)
(* missing from the catalog or has a status other than ACTIVE ends with    *)
(* status 400, persists no order and leaves the carts as they are; an      *)
(* order that createOrder builds has only lines whose product is ACTIVE in *)
(* the catalog at that time, one line per cart line, and the order that is *)
(* persisted is the order that was built.                                  *)
C22_NeverOrderable ==
  [][\A r \in Slots :
       /\ (/\ Leaves(r, "createOrder", "products")
           /\ \E i \in 1..Len(req[r].items) : Unresolved(r, i))
          => /\ req'[r] = Closed
             /\ out'.op = "createOrder"
             /\ out'.status = 400
             /\ orders' = orders
             /\ carts' = carts
       /\ (Leaves(r, "createOrder", "products") /\ req'[r] # Closed)
          => LET lines == req'[r].order.items
             IN  /\ Len(lines) = Len(req[r].items)
                 /\ \A i \in 1..Len(lines) :
                      /\ lines[i].product = req[r].items[i].product
                      /\ catalog[lines[i].product].exists
                      /\ catalog[lines[i].product].status = "ACTIVE"
       /\ (Leaves(r, "createOrder", "persist") /\ orders' # orders)
          => orders' = Append(orders, req[r].order)]_vars

(* a createOrder was refused for a cart line whose product is in the       *)
(* catalog as INACTIVE or UNAVAILABLE, and nothing was persisted           *)
C22_Witness ==
  /\ out = Response("createOrder", 400, "Product not found for item in cart")
  /\ orders = <<>>
  /\ \E c \in Customers :
       /\ carts[c].exists
       /\ \E i \in 1..Len(carts[c].items) :
            /\ catalog[carts[c].items[i].product].exists
            /\ catalog[carts[c].items[i].product].status
                 \in {"INACTIVE", "UNAVAILABLE"}

AddressOps == {"updateAddress", "setDefaultAddress", "deleteAddress"}

(* C23: the order that createOrder persists holds a copy of the address    *)
(* that the request read; no step of updateAddress, setDefaultAddress or   *)
(* deleteAddress changes the order store, and no step at all changes the   *)
(* shipping address of a persisted order; getOrder and getOrders return    *)
(* the shipping address stored in the order.                               *)
C23_AddressSnapshot ==
  [][/\ \A id \in 1..Len(orders) :
          /\ id \in 1..Len(orders')
          /\ orders'[id].shippingAddress = orders[id].shippingAddress
     /\ \A r \in Slots :
          /\ (\E op \in AddressOps :
                \/ Arrives(r, op)
                \/ \E pc \in {"unsetOthers", "saveAddress", "delete"} :
                     Leaves(r, op, pc))
             => orders' = orders
          /\ (Leaves(r, "createOrder", "products") /\ req'[r] # Closed)
             => req'[r].order.shippingAddress
                  = [street |-> req[r].address.addressLine1]
          /\ (Leaves(r, "createOrder", "persist") /\ orders' # orders)
             => orders'[Len(orders')].shippingAddress
                  = req[r].order.shippingAddress
          /\ (Arrives(r, "getOrder") /\ req'[r] # Closed /\ req'[r].found)
             => req'[r].adminOrder.address
                  = orders[req'[r].orderId].shippingAddress
          /\ (Ends(r, "getOrder", "respond") /\ req[r].found)
             => sent' = OrderBody(req[r].adminOrder)
          /\ (Arrives(r, "getOrders") /\ adminReady)
             => \A i \in 1..Len(sent'.orders) :
                  sent'.orders[i].address
                    = orders[sent'.orders[i].id].shippingAddress]_vars

(* getOrder returned the street the order was placed with although the     *)
(* address used for the order has another street by now or is deleted      *)
C23_Witness ==
  /\ out = Response("getOrder", 200, "")
  /\ sent.kind = "order"
  /\ sent.order.address = [street |-> 1]
  /\ LET address == addresses[placed[sent.order.id].addressId]
     IN  \/ ~address.exists
         \/ address.addressLine1 # 1

(* the request in slot r is refused as malformed in the step in which it   *)
(* arrives: it ends there with status 400, so that none of its later       *)
(* steps, which are its store accesses, is taken, and every store is as it *)
(* was                                                                     *)
RefusedOnArrival(r) ==
  /\ req'[r] = Closed
  /\ out'.status = 400
  /\ UNCHANGED <<carts, addresses, catalog, orders>>

(* C24 as stated: createOrder without address or payment method, or with   *)
(* razorpay and without payment references, addToCart and updateCartItem   *)
(* with a quantity below 1 and syncGuestCart with a body that is not a     *)
(* list are refused as malformed on arrival, whatever the stores hold.     *)
C24_RejectedFirst ==
  [][\A r \in Slots, c \in Customers :
       /\ \A body \in OrderBodies :
            (/\ CreateOrder(r, c, body)
             /\ \/ body.addressId = ""
                \/ body.paymentMethod = ""
                \/ body.paymentMethod = "razorpay" /\ ~body.razorpayIds)
            => RefusedOnArrival(r)
       /\ \A p \in Products, q \in QtyInputs :
            /\ (AddToCart(r, c, p, q) /\ q < 1) => RefusedOnArrival(r)
            /\ (UpdateCartItem(r, c, p, q) /\ q < 1) => RefusedOnArrival(r)
       /\ \A guest \in GuestLists :
            SyncGuestCart(r, c, FALSE, guest) => RefusedOnArrival(r)]_vars

(* C25: the catalog changes only in a step of the operator system, which   *)
(* is no step of a request; every step of a cart or order request leaves   *)
(* stock, price and status of every product as they are, and so do the     *)
(* steps of createOrder that persist the order and clear the cart.         *)
C25_CatalogReadOnly ==
  [][/\ catalog' # catalog
        => /\ edits' = edits - 1
           /\ req' = req
           /\ out' = out
           /\ sent' = sent
           /\ carts' = carts
           /\ orders' = orders
     /\ \A r \in Slots :
          (\/ req[r] = Idle /\ req'[r] # Idle
           \/ req[r] \notin {Idle, Closed} /\ req'[r] = Closed
           \/ req[r] \notin {Idle, Closed} /\ req'[r].pc # req[r].pc)
          => catalog' = catalog]_vars

(* an order for product p1 was placed and its cart cleared, and the        *)
(* catalog, which the operator system has not touched, has the stock it    *)
(* had before                                                              *)
C25_Witness ==
  /\ out = Response("createOrder", 201, "")
  /\ edits = MaxEdits
  /\ Len(orders) > 0
  /\ Ordered(orders[1].items, "p1") > 0
  /\ \A p \in Products : catalog[p] = ProductDoc(p, "ACTIVE", MaxStock)

(* C26: when the step of createOrder that clears the cart fails, the       *)
(* request ends with status 500, the order it persisted stays in the order *)
(* store and every cart keeps its lines.                                   *)
C26_NoCompensation ==
  [][\A r \in Slots :
       (Ends(r, "createOrder", "clear") /\ out'.status # 201)
       => /\ out'.op = "createOrder"
          /\ out'.status = 500
          /\ orders' = orders
          /\ \E id \in 1..Len(orders') : orders'[id] = req[r].order
          /\ carts' = carts]_vars

(* the only request so far was a createOrder whose order is in the store,  *)
(* whose cart clear failed and whose cart still holds the ordered lines    *)
C26_Witness ==
  /\ out = Response("createOrder", 500, "Failed to save cart")
  /\ req[1] = Closed
  /\ req[2] = Idle
  /\ Len(orders) = 1
  /\ carts[orders[1].customer].exists
  /\ Len(carts[orders[1].customer].items) = Len(orders[1].items)
  /\ \A i \in 1..Len(orders[1].items) :
       carts[orders[1].customer].items[i].product = orders[1].items[i].product

(* C27 as stated: the order store never holds two orders that createOrder  *)
(* requests of one customer built from the same cart content.  (Where only *)
(* createOrder writes carts, a customer's cart is never filled again, so   *)
(* any two orders of one customer stem from reads of the same content.)    *)
C27_OneOrderPerCart ==
  \A i, j \in 1..Len(orders) :
    (/\ i # j
     /\ orders[i].customer = orders[j].customer)
    => \E k \in 1..Len(orders[i].items) :
         \/ k > Len(orders[j].items)
         \/ orders[i].items[k].product # orders[j].items[k].product
         \/ orders[i].items[k].quantity # orders[j].items[k].quantity

(* C28 as stated: when createOrder clears the cart, every line that the    *)
(* stored cart holds at that time, among them the lines that addToCart,    *)
(* updateCartItem or syncGuestCart stored since createOrder read the cart, *)
(* is a line of the order that the request persisted, with its product and *)
(* its quantity; otherwise the clear does not take place.                  *)
C28_StoredLineKept ==
  [][\A r \in Slots :
       (/\ Ends(r, "createOrder", "clear")
        /\ carts'[req[r].cust].items = <<>>)
       => \A i \in 1..Len(carts[req[r].cust].items) :
            LET line == carts[req[r].cust].items[i]
            IN  \E k \in 1..Len(req[r].order.items) :
                  /\ req[r].order.items[k].product = line.product
                  /\ req[r].order.items[k].quantity = line.quantity]_vars

(* C29 as stated: createOrder persists an order with payment status PAID   *)
(* only for a request with payment method razorpay that carries payment    *)
(* references, and only after a verifyRazorpayPayment has succeeded.  (Of  *)
(* the two requests of a behaviour the other one has then ended, and its   *)
(* response, the last one sent, is the 200 of verifyRazorpayPayment.)      *)
C29_PaidIsVerified ==
  [][\A r \in Slots :
       (/\ Leaves(r, "createOrder", "persist")
        /\ orders' # orders
        /\ orders'[Len(orders')].paymentStatus = "PAID")
       => /\ req[r].body.paymentMethod = "razorpay"
          /\ req[r].body.razorpayIds
          /\ \E s \in Slots \ {r} : req[s] = Closed
          /\ out = Response("verifyRazorpayPayment", 200, "")]_vars

(* C30 as stated: every stored cart holds at most one line per product,    *)
(* whatever requests of addItem, setQuantity, removeItem and               *)
(* mergeGuestCart ran, also when two requests of one customer interleave.  *)
C30_OneLinePerProduct ==
  \A c \in Customers :
    carts[c].exists =>
      \A i, j \in 1..Len(carts[c].items) :
        carts[c].items[i].product = carts[c].items[j].product => i = j

====
